---------------------------- MODULE Spec2Model ----------------------------
(***************************************************************************)
(* Verification model of the GAIA climate projection and intervention      *)
(* engine: utils/climate_interventions.py (the intervention overlay and    *)
(* the policy package), utils/climate_simulator.py (the annual-increment   *)
(* and the ODE integrator), utils/simulation/climate_simulator.py (the     *)
(* coupled five-variable simulator) and pages/advanced_simulation.py (the  *)
(* page's own annual simulator).                                           *)
(*                                                                         *)
(* Numbers.  The program computes in IEEE doubles; the model computes in   *)
(* fixed point with three decimals: an integer n stands for n/1000.  Every *)
(* product of two such numbers is divided by 1000 and rounded to nearest.  *)
(* exp and log are computed by their series in the same fixed point.       *)
(* Trajectory values handed to the overlay are whole multiples of 1000, so *)
(* that the overlay's first scaling is exact.                              *)
(***************************************************************************)
EXTENDS Integers, Sequences, FiniteSets, TLC

VARIABLES
    call,       \* the entry point invoked last ("none" after construction)
    args,       \* its arguments
    ret,        \* what it returned or raised: [kind, value]
    baselines,  \* simulate_policy_package: the baselines dict
    results,    \* simulate_policy_package: the results dict
    pending,    \* simulate_policy_package: the interventions not yet processed
    initial_state,  \* AdvancedClimateSimulator.initial_state
    initial,    \* SimpleClimateSimulator.initial
    rng,        \* numpy's global generator: the number of draws made from it
    predictor,  \* the QuantumClimatePredictor: the constructor's argument and quantum_enabled
    threads     \* per thread on the predictor: its operation, its position, what it returned

vars == <<call, args, ret, baselines, results, pending, initial_state, initial,
          rng, predictor, threads>>

-----------------------------------------------------------------------------
(* Bounds of the model *)

\* Longest horizon (years_to_simulate / years) a call is given.
MaxYears == 12
\* Longest list of interventions in a policy package.
MaxInterventions == 2

\* The operations one thread completes on the shared predictor.
MaxCalls == 2

\* The longest trajectory given to analyze_tipping_points.
MaxRecords == 4

\* The longest trajectory given to the end-of-horizon comparison.
MaxCompared == 3

-----------------------------------------------------------------------------
(* Fixed-point arithmetic *)

Milli == 10 * 100

Abs(x) == IF x < 0 THEN -x ELSE x

Max(a, b) == IF a >= b THEN a ELSE b

Min(a, b) == IF a <= b THEN a ELSE b

\* a / b rounded to the nearest integer (b > 0), as a double rounds.
RoundDiv(a, b) == (2 * a + b) \div (2 * b)

\* The product of two fixed-point numbers.
Mul(a, b) == RoundDiv(a * b, Milli)

\* The product of two fixed-point numbers of which the first may be large:
\* its whole part and its fraction are multiplied separately.
MulWide(a, b) == (a \div Milli) * b + RoundDiv((a % Milli) * b, Milli)

RECURSIVE ExpSeries(_, _, _, _)
ExpSeries(y, k, term, acc) ==
    IF k > 24 THEN acc
    ELSE LET t == RoundDiv(term * y, Milli * k)
         IN  ExpSeries(y, k + 1, t, acc + t)

\* np.exp(y): the Taylor series of e^y, |y| <= 6.
Exp(y) == Max(0, ExpSeries(y, 1, Milli, Milli))

EmptyDict == [k \in {} |-> 0]

\* dict.get(key, default)
Get(dict, key, default) == IF key \in DOMAIN dict THEN dict[key] ELSE default

-----------------------------------------------------------------------------
(* Trajectories of the predictor: DataFrames with the columns year, value, *)
(* uncertainty, lower_bound, upper_bound, and the columns a consumer adds. *)

\* 1.96 * uncertainty
Band(uncertainty) == MulWide(uncertainty, 1960)

Row(year, value, uncertainty) ==
    [year |-> year, value |-> value, uncertainty |-> uncertainty,
     lower_bound |-> value - Band(uncertainty),
     upper_bound |-> value + Band(uncertainty)]

\* The value a baseline of a given shape takes i years after its first year.
ShapeValue(shape, i) ==
    CASE shape = "rising"  -> 417000 + 3000 * i
      [] shape = "falling" -> 21000 - 2000 * i
      [] shape = "bumpy"   -> 1000 * (1 + ((4 * i) % 9))

BaselineShapes == {"rising", "falling", "bumpy"}

\* A baseline as generate_prediction returns it: one row per predicted
\* year, the years consecutive, the uncertainty growing with the year.
BaselineFrame(shape, years) ==
    [rows |-> [i \in 1..years |->
                  Row(2026 + i, ShapeValue(shape, i - 1), 100 * i)],
     intervention |-> FALSE, package_id |-> "absent"]

\* The shape of the baseline generate_prediction gives for a variable.
VariableShape(variable) ==
    IF variable = "co2" THEN "rising" ELSE "bumpy"

\* The noise np.random.normal adds to the last historical value, by the
\* number of draws made before: the historical data, and with it every
\* predicted value, depends on the state of the global generator.
Noise(draws) == Milli * draws

\* prediction_method(historical_data, years_to_predict, scenario): the
\* prediction before the quantum advantage, from historical data simulated
\* with the given noise.
Prediction(variable, years, noise) ==
    [rows |-> [i \in 1..years |->
                  Row(2026 + i, ShapeValue(VariableShape(variable), i - 1) + noise, 100 * i)],
     intervention |-> FALSE, package_id |-> "absent"]

\* _apply_quantum_advantage: the uncertainty times 0.7, the bounds
\* recomputed, the lower bound of ice_extent clipped at 0.
apply_quantum_advantage(predictions, climate_variable) ==
    [predictions EXCEPT !.rows =
        [i \in DOMAIN predictions.rows |->
            LET row == Row(predictions.rows[i].year, predictions.rows[i].value,
                           MulWide(predictions.rows[i].uncertainty, 700))
            IN  IF climate_variable = "ice_extent"
                THEN [row EXCEPT !.lower_bound = Max(0, @)]
                ELSE row]]

\* result["year"].min()
MinYear(frame) ==
    CHOOSE y \in {frame.rows[i].year : i \in DOMAIN frame.rows} :
        \A i \in DOMAIN frame.rows : y <= frame.rows[i].year

-----------------------------------------------------------------------------
(* ClimateInterventionSimulator._apply_intervention_effect *)

LevelFactorTypes == {"emission_reduction", "carbon_sequestration", "carbon_removal"}

\* The effect descriptors the overlay is applied with: four of the
\* catalogue, and three whose raw effect passes the saturation level
\* within MaxYears years.
EffectDescriptors ==
    { [factor_type |-> "emission_reduction", immediate_effect |-> -100,
       annual_effect |-> -20, saturation_level |-> 700, delay_years |-> 2],
      [factor_type |-> "carbon_sequestration", immediate_effect |-> -20,
       annual_effect |-> -10, saturation_level |-> 300, delay_years |-> 5],
      [factor_type |-> "carbon_removal", immediate_effect |-> 0,
       annual_effect |-> -10, saturation_level |-> 200, delay_years |-> 10],
      [factor_type |-> "trend_reduction", immediate_effect |-> 0,
       annual_effect |-> -2, saturation_level |-> 600, delay_years |-> 10],
      [factor_type |-> "emission_reduction", immediate_effect |-> -100,
       annual_effect |-> -300, saturation_level |-> 300, delay_years |-> 1],
      [factor_type |-> "carbon_sequestration", immediate_effect |-> 200,
       annual_effect |-> 300, saturation_level |-> 400, delay_years |-> 0],
      [factor_type |-> "trend_reduction", immediate_effect |-> 0,
       annual_effect |-> -400, saturation_level |-> 600, delay_years |-> 1] }

\* The parameter dicts the overlay is applied with.
ParameterSets ==
    { [implementation_speed |-> 500, coverage |-> 800],
      [implementation_speed |-> 1000, coverage |-> 1000],
      [coverage |-> 600],
      EmptyDict }

\* implementation_curve[year_index]: the logistic roll-out scaled by coverage.
implementation_curve(year_index, delay_years, implementation_speed, coverage) ==
    LET midpoint  == delay_years * Milli + RoundDiv(5 * Milli * Milli, implementation_speed)
        steepness == Mul(implementation_speed, 500)
        x         == Mul(steepness, year_index * Milli - midpoint)
    IN  Mul(RoundDiv(Milli * Milli, Milli + Exp(-x)), coverage)

\* Mutant: the effect begins one year before the delay is over.
AffectedOneYearEarly(year_index, delay_years) == year_index >= delay_years - 1

\* if year_index >= delay_years
Affected(year_index, delay_years) == year_index >= delay_years

\* Mutant: the saturation test is missing.
SaturateNever(e, saturation_level) == e

\* if abs(e) > saturation_level: e = -saturation_level if e < 0 else saturation_level
Saturate(e, saturation_level) ==
    IF Abs(e) > saturation_level
    THEN (IF e < 0 THEN -saturation_level ELSE saturation_level)
    ELSE e

\* (immediate_effect + annual_effect * time_since_delay) * implementation_curve[year_index]
RawEffect(effect, year_index) ==
    effect.immediate_effect + effect.annual_effect * (year_index - effect.delay_years)

\* Mutant: the raw effect is clamped before it is multiplied by the curve.
CumulativeEffectClampFirst(effect, parameters, year_index) ==
    LET curve == implementation_curve(year_index, effect.delay_years,
                     Get(parameters, "implementation_speed", 500),
                     Get(parameters, "coverage", 700))
    IN  Mul(Max(-effect.saturation_level,
                Min(effect.saturation_level, RawEffect(effect, year_index))), curve)

\* cumulative_effect / trend_effect after the saturation test
CumulativeEffect(effect, parameters, year_index) ==
    LET curve == implementation_curve(year_index, effect.delay_years,
                     Get(parameters, "implementation_speed", 500),
                     Get(parameters, "coverage", 700))
    IN  Saturate(Mul(RawEffect(effect, year_index), curve), effect.saturation_level)

\* (baseline.iloc[-1]["value"] - baseline.iloc[0]["value"]) / len(baseline)
BaselineTrend(baseline) ==
    RoundDiv(baseline.rows[Len(baseline.rows)].value - baseline.rows[1].value,
             Len(baseline.rows))

\* baseline.loc[baseline["year"] == baseline["year"].min() + delay_years, "value"].iloc[0]
FirstAffectedValue(baseline, delay_years) ==
    LET i == CHOOSE j \in DOMAIN baseline.rows :
                 baseline.rows[j].year = MinYear(baseline) + delay_years
    IN  baseline.rows[i].value

\* Mutant: a level-affecting effect scales the first affected value of the
\* baseline in every row, not the row's own value.
AffectedFromFirstValue(baseline, effect, parameters, i, year_index) ==
    LET e == CumulativeEffect(effect, parameters, year_index)
    IN  IF effect.factor_type \in LevelFactorTypes
        THEN Mul(FirstAffectedValue(baseline, effect.delay_years), Milli + e)
        ELSE FirstAffectedValue(baseline, effect.delay_years)
               + Mul(BaselineTrend(baseline), Milli + e) * (year_index - effect.delay_years)

\* The value of one affected row.
AffectedValue(baseline, effect, parameters, i, year_index) ==
    LET e == CumulativeEffect(effect, parameters, year_index)
    IN  IF effect.factor_type \in LevelFactorTypes
        THEN Mul(baseline.rows[i].value, Milli + e)
        ELSE FirstAffectedValue(baseline, effect.delay_years)
               + Mul(BaselineTrend(baseline), Milli + e) * (year_index - effect.delay_years)

\* Mutant: the value of an affected row is written, its bounds are left.
UpdateValue(row, value) == [row EXCEPT !.value = value]

\* result.loc[i, "value"] = value, then lower_bound and upper_bound at
\* 1.96 times the row's uncertainty from it.
UpdateRow(row, value) ==
    [row EXCEPT !.value = value,
                !.lower_bound = value - Band(row.uncertainty),
                !.upper_bound = value + Band(row.uncertainty)]

apply_intervention_effect(baseline, effect, parameters, years) ==
    LET result == baseline
        OneRow(i) ==
            LET year_index == result.rows[i].year - MinYear(result)
            IN  IF /\ effect.factor_type \in LevelFactorTypes \cup {"trend_reduction"}
                   /\ Affected(year_index, effect.delay_years)
                THEN UpdateRow(result.rows[i],
                               AffectedValue(baseline, effect, parameters, i, year_index))
                ELSE result.rows[i]
    IN  [result EXCEPT !.rows = [i \in DOMAIN result.rows |-> OneRow(i)],
                       !.intervention = TRUE]

-----------------------------------------------------------------------------
(* Doubles that may be non-finite: a finite value, nan, inf or -inf. *)

Fin(v) == [k |-> "fin", v |-> v]
NaN    == [k |-> "nan", v |-> 0]
PosInf == [k |-> "inf", v |-> 0]
NegInf == [k |-> "-inf", v |-> 0]

IsFinite(a) == a.k = "fin"

\* a + b
FAdd(a, b) ==
    CASE a.k = "nan" \/ b.k = "nan"    -> NaN
      [] a.k = "fin" /\ b.k = "fin"    -> Fin(a.v + b.v)
      [] a.k = "fin"                   -> b
      [] b.k = "fin"                   -> a
      [] a.k = b.k                     -> a
      [] OTHER                         -> NaN

\* -a
FNeg(a) ==
    CASE a.k = "fin"  -> Fin(-a.v)
      [] a.k = "inf"  -> NegInf
      [] a.k = "-inf" -> PosInf
      [] OTHER        -> NaN

\* a * num / den for num >= 0 and den >= 0.  A double divided by zero is
\* an infinity of its sign, and nan when it is zero itself.
FScale(a, num, den) ==
    IF a.k # "fin" THEN a
    ELSE IF den # 0 THEN Fin(RoundDiv(a.v * num, den))
    ELSE IF a.v * num > 0 THEN PosInf
    ELSE IF a.v * num < 0 THEN NegInf
    ELSE NaN

\* round(a, digits): to a multiple of unit
FRound(a, unit) == IF a.k = "fin" THEN Fin(RoundDiv(a.v, unit) * unit) ELSE a

\* Python's max(0, a): a when a > 0 is true, else 0 (so 0 for nan).
PyMax0(a) ==
    CASE a.k = "fin" -> Fin(Max(0, a.v))
      [] a.k = "inf" -> a
      [] OTHER       -> Fin(0)

RECURSIVE LnSeries(_, _, _, _)
LnSeries(z2, k, zk, acc) ==
    IF k > 15 THEN acc
    ELSE LnSeries(z2, k + 2, Mul(zk, z2), acc + RoundDiv(zk, k))

\* ln(a / b) for a, b > 0: halved or doubled into [1/2, 2], then
\* 2 * atanh((a - b) / (a + b)) by its series.
RECURSIVE Ln(_, _)
Ln(a, b) ==
    IF 2 * a < b THEN Ln(2 * a, b) - 693
    ELSE IF a > 2 * b THEN Ln(a, 2 * b) + 693
    ELSE LET z == RoundDiv((a - b) * Milli, a + b)
         IN  2 * LnSeries(Mul(z, z), 1, z, 0)

\* np.log(co2 / baseline_co2) for baseline_co2 > 0
Log(co2, baseline_co2) ==
    IF co2 < 0 THEN NaN
    ELSE IF co2 = 0 THEN NegInf
    ELSE Fin(Ln(co2, baseline_co2))

-----------------------------------------------------------------------------
(* utils/climate_simulator.py: the scenarios and run_climate_simulation *)

DEFAULT_PARAMS ==
    [initial_temperature |-> 14000, co2_sensitivity |-> 5350,
     climate_sensitivity |-> 800, ocean_heat_capacity |-> 14000,
     baseline_co2 |-> 280000, current_co2 |-> 417000]

\* Mutant: the increases of the first two scenarios are exchanged.
ExchangedScenarios ==
    [business_as_usual   |-> [annual_increase |-> 1200],
     moderate_mitigation |-> [annual_increase |-> 2500],
     strong_mitigation   |-> [annual_increase |-> 500],
     net_zero            |-> [annual_increase |-> 1000, net_zero_year |-> 2050],
     negative_emissions  |-> [annual_increase |-> 800, negative_year |-> 2070]]

EMISSION_SCENARIOS ==
    [business_as_usual   |-> [annual_increase |-> 2500],
     moderate_mitigation |-> [annual_increase |-> 1200],
     strong_mitigation   |-> [annual_increase |-> 500],
     net_zero            |-> [annual_increase |-> 1000, net_zero_year |-> 2050],
     negative_emissions  |-> [annual_increase |-> 800, negative_year |-> 2070]]

\* The scenario ids callers name: the catalogue and one that is not in it.
CalledScenarios == DOMAIN EMISSION_SCENARIOS \cup {"rcp_6_0"}

\* datetime.now().year: the years the program is run in.  The later two
\* bring the net-zero year and the negative-emissions year within MaxYears.
CurrentYears == {2026, 2046, 2066}

\* Mutant: the fallback is another scenario.
ScenarioOrModerate(scenario) ==
    IF scenario \notin DOMAIN EMISSION_SCENARIOS THEN "moderate_mitigation" ELSE scenario

\* if scenario not in EMISSION_SCENARIOS: scenario = 'business_as_usual'
ScenarioOrFallback(scenario) ==
    IF scenario \notin DOMAIN EMISSION_SCENARIOS THEN "business_as_usual" ELSE scenario

\* The annual CO2 increase of the i-th simulated year (year = current_year + i).
annual_increase(scenario, i, current_year) ==
    LET scenario_details == EMISSION_SCENARIOS[scenario]
        year == current_year + i
    IN  CASE scenario = "net_zero" ->
               IF year < scenario_details.net_zero_year
               THEN LET years_to_net_zero == scenario_details.net_zero_year - current_year
                    IN  RoundDiv(scenario_details.annual_increase * (years_to_net_zero - i),
                                 years_to_net_zero)
               ELSE 0
          [] scenario = "negative_emissions" ->
               IF year < scenario_details.negative_year
               THEN LET years_to_negative == scenario_details.negative_year - current_year
                    IN  RoundDiv(scenario_details.annual_increase * (2 * years_to_negative - 3 * i),
                                 2 * years_to_negative)
               ELSE -500
          [] OTHER -> scenario_details.annual_increase

\* Mutant: the years advance by two.
SimulationYearsByTwo(current_year, years) == [i \in 1..years |-> current_year + 2 * (i - 1)]

\* The rows of run_climate_simulation: range(current_year, current_year + years).
SimulationYears(current_year, years) == [i \in 1..years |-> current_year + i - 1]

\* co2_concentrations: the level after each year's increase, rounded to 0.1.
RECURSIVE Co2Concentrations(_, _, _, _, _, _)
Co2Concentrations(scenario, current_year, years, i, co2_level, acc) ==
    IF i >= years THEN acc
    ELSE LET level == co2_level + annual_increase(scenario, i, current_year)
         IN  Co2Concentrations(scenario, current_year, years, i + 1, level,
                               Append(acc, RoundDiv(level, 100) * 100))

\* temperatures: per CO2 entry, temp += forcing * climate_sensitivity /
\* ocean_heat_capacity with forcing = co2_sensitivity * log(co2 / baseline_co2).
RECURSIVE Temperatures(_, _, _, _, _)
Temperatures(co2_concentrations, params, i, temp, acc) ==
    IF i > Len(co2_concentrations) THEN acc
    ELSE LET forcing == FScale(Log(co2_concentrations[i], params.baseline_co2),
                               params.co2_sensitivity, Milli)
             temp_change == FScale(forcing, params.climate_sensitivity,
                                   params.ocean_heat_capacity)
             t == FAdd(temp, temp_change)
         IN  Temperatures(co2_concentrations, params, i + 1, t,
                          Append(acc, FRound(t, 10)))

\* Mutant: the extent is not floored.
IceNoFloor(new_ice) == new_ice

\* max(0, new_ice)
IceFloor(new_ice) == PyMax0(new_ice)

\* arctic_ice of run_climate_simulation: 10.5 - 0.8 * anomaly, floored at 0.
SimpleArcticIce(temp, initial_temperature) ==
    LET temp_anomaly == FAdd(temp, Fin(-initial_temperature))
        new_ice == FAdd(Fin(10500), FNeg(FScale(temp_anomaly, 800, Milli)))
    IN  FRound(IceFloor(new_ice), 10)

run_climate_simulation(scenario, years, params, current_year) ==
    LET s == ScenarioOrFallback(scenario)
        simulation_years == SimulationYears(current_year, years)
        co2_concentrations == Co2Concentrations(s, current_year, years, 0,
                                                params.current_co2, <<>>)
        temperatures == Temperatures(co2_concentrations, params, 1,
                                     Fin(params.initial_temperature), <<>>)
    IN  [i \in DOMAIN simulation_years |->
            [year |-> simulation_years[i],
             co2 |-> co2_concentrations[i],
             temperature |-> temperatures[i],
             arctic_ice |-> SimpleArcticIce(temperatures[i], params.initial_temperature)]]

\* The params run_climate_simulation is given: None (the defaults), a
\* trace of CO2, a small ocean heat capacity, no ocean heat capacity.
SimpleParams ==
    { DEFAULT_PARAMS,
      [DEFAULT_PARAMS EXCEPT !.current_co2 = 1000],
      [DEFAULT_PARAMS EXCEPT !.ocean_heat_capacity = 100],
      [DEFAULT_PARAMS EXCEPT !.ocean_heat_capacity = 0] }

-----------------------------------------------------------------------------
(* utils/climate_simulator.py: run_advanced_climate_simulation and         *)
(* generate_intervention_simulation.  odeint is modelled by explicit Euler *)
(* steps of one year on the right-hand side climate_system; the sea-level  *)
(* and extreme-weather columns are left out.                               *)

\* params=None
None == [None |-> TRUE]

IsNone(params) == DOMAIN params = {"None"}

\* The parameters run_advanced_climate_simulation uses when params is None.
AdvancedDefaults ==
    [initial_temperature |-> 14000, ocean_heat_capacity |-> 14000,
     climate_sensitivity |-> 3000, co2_forcing_coefficient |-> 5350,
     baseline_co2 |-> 280000, current_co2 |-> 417000,
     ocean_mixing_rate |-> 2, deep_ocean_temperature |-> 6000,
     ice_albedo_feedback |-> 10, carbon_cycle_feedback |-> 10]

\* The coefficients run_advanced_climate_simulation reads by params[...].
AdvancedKeysRead ==
    {"current_co2", "initial_temperature", "deep_ocean_temperature",
     "co2_forcing_coefficient", "baseline_co2", "ice_albedo_feedback",
     "ocean_mixing_rate", "ocean_heat_capacity"}

\* if params is None: params = {...}; a given mapping is used as it is.
ParamsOrDefaults(params) == IF IsNone(params) THEN AdvancedDefaults ELSE params

\* The custom_params mapping of the Custom Parameters page (its defaults).
CustomPageParams ==
    [initial_temperature |-> 14000, climate_sensitivity |-> 3000,
     ocean_heat_capacity |-> 14000, baseline_co2 |-> 280000,
     current_co2 |-> 417000, co2_forcing_coefficient |-> 5350]

\* The params run_advanced_climate_simulation is given.
AdvancedParams ==
    { None, CustomPageParams, DEFAULT_PARAMS,
      [AdvancedDefaults EXCEPT !.current_co2 = 1000],
      [AdvancedDefaults EXCEPT !.ocean_heat_capacity = 660] }

\* co2_levels: the initial level and the level after each year's increase.
RECURSIVE Co2Levels(_, _, _, _, _)
Co2Levels(scenario, current_year, years, i, acc) ==
    IF i > years THEN acc
    ELSE Co2Levels(scenario, current_year, years, i + 1,
                   Append(acc, acc[Len(acc)] + annual_increase(scenario, i, current_year)))

\* Mutant: a negative index is not caught and counts from the end of the
\* list.
Co2LookupFromEnd(co2_levels, idx) ==
    IF idx >= Len(co2_levels) THEN co2_levels[Len(co2_levels)]
    ELSE IF idx < 0 THEN co2_levels[Max(1, Len(co2_levels) + idx + 1)]
    ELSE co2_levels[idx + 1]

\* The CO2 level climate_system uses at index idx = floor(t).
Co2Lookup(co2_levels, idx) ==
    IF idx >= Len(co2_levels) THEN co2_levels[Len(co2_levels)]
    ELSE IF idx < 0 THEN co2_levels[1]
    ELSE co2_levels[idx + 1]

\* climate_system: [dTs_dt, dTd_dt] at state y and time t.
climate_system(y, t, co2_levels, params) ==
    LET co2 == Co2Lookup(co2_levels, t)
        forcing == Mul(params.co2_forcing_coefficient, Ln(co2, params.baseline_co2))
        temp_anomaly == y.T_s - params.initial_temperature
        ice_feedback == Mul(params.ice_albedo_feedback, temp_anomaly)
        total_forcing == forcing + ice_feedback
        mixing == Mul(params.ocean_mixing_rate, y.T_s - y.T_d)
    IN  [T_s |-> RoundDiv((total_forcing - mixing) * Milli, params.ocean_heat_capacity),
         T_d |-> RoundDiv(mixing * Milli, 5 * params.ocean_heat_capacity)]

\* What the solver leaves in the surface temperature once the forcing is
\* not finite (the logarithm of a CO2 level <= 0): nan, an infinity, or a
\* finite value without meaning.
SolverLeftovers == {NaN, PosInf, NegInf, Fin(-40000), Fin(14000), Fin(60000)}

\* odeint(climate_system, y0, t): the state at t = 0, 1, ..., years.
RECURSIVE Odeint(_, _, _, _, _)
Odeint(y, t, years, co2_levels, params) ==
    IF t >= years THEN <<y>>
    ELSE LET next ==
                 IF ~y.ok \/ Co2Lookup(co2_levels, t) <= 0
                 THEN [ok |-> FALSE, T_s |-> 0, T_d |-> 0]
                 ELSE LET d == climate_system(y, t, co2_levels, params)
                      IN  [ok |-> TRUE, T_s |-> y.T_s + d.T_s, T_d |-> y.T_d + d.T_d]
         IN  <<y>> \o Odeint(next, t + 1, years, co2_levels, params)

\* if remaining_ice < 1.0: remaining_ice *= 0.8
LastIce(remaining_ice) ==
    IF remaining_ice < Milli THEN Mul(remaining_ice, 800) ELSE remaining_ice

\* ice_loss: piecewise in the anomaly.  Every comparison with nan is false,
\* so a nan anomaly takes the last branch; -inf takes the first, +inf the last.
IceLoss(temp_anomaly) ==
    IF temp_anomaly.k = "fin"
    THEN IF temp_anomaly.v < 1000 THEN Fin(Mul(temp_anomaly.v, 700))
         ELSE IF temp_anomaly.v < 2000
              THEN Fin(700 + Mul(temp_anomaly.v - 1000, 1200))
              ELSE Fin(700 + 1200 + Mul(temp_anomaly.v - 2000, 1800))
    ELSE temp_anomaly

\* arctic_ice of run_advanced_climate_simulation from the unrounded temperature.
AdvancedArcticIce(temperature, initial_temperature) ==
    LET temp_anomaly == FAdd(temperature, Fin(-initial_temperature))
        remaining_ice == IceFloor(FAdd(Fin(10500), FNeg(IceLoss(temp_anomaly))))
    IN  IF remaining_ice.k = "fin"
        THEN FRound(Fin(LastIce(remaining_ice.v)), 10)
        ELSE remaining_ice

\* y[:, 0] at one time point.
SurfaceTemperature(y, leftover) == IF y.ok THEN Fin(y.T_s) ELSE leftover

\* range(current_year, current_year + years + 1)
AdvancedYears(current_year, years) == [i \in 1..(years + 1) |-> current_year + i - 1]

run_advanced_climate_simulation(scenario, years, params_given, current_year, leftover) ==
    LET params == ParamsOrDefaults(params_given)
    IN  IF ~(AdvancedKeysRead \subseteq DOMAIN params)
        THEN [kind |-> "raise", value |-> "KeyError"]
        ELSE
        LET s == ScenarioOrFallback(scenario)
            simulation_years == AdvancedYears(current_year, years)
            co2_levels == Co2Levels(s, current_year, years, 1, <<params.current_co2>>)
            y == Odeint([ok |-> TRUE, T_s |-> params.initial_temperature,
                         T_d |-> params.deep_ocean_temperature],
                        0, years, co2_levels, params)
        IN  [kind |-> "ok",
             value |-> [i \in DOMAIN simulation_years |->
                [year |-> simulation_years[i],
                 co2 |-> co2_levels[i],
                 temperature |-> FRound(SurfaceTemperature(y[i], leftover), 10),
                 arctic_ice |-> AdvancedArcticIce(SurfaceTemperature(y[i], leftover),
                                                  params.initial_temperature)]]]

\* The intervention years generate_intervention_simulation is given.
InterventionYears == {2025, 2030, 2071}

\* intervention_params: a copy of DEFAULT_PARAMS, started from the last
\* state of the base run when there is one.
InterventionParams(base_results) ==
    IF base_results = <<>> THEN DEFAULT_PARAMS
    ELSE LET last_state == base_results[Len(base_results)]
         IN  [DEFAULT_PARAMS EXCEPT !.initial_temperature = last_state.temperature.v,
                                    !.current_co2 = last_state.co2]

generate_intervention_simulation(base_scenario, intervention_year, current_year, leftover) ==
    LET years_before == Max(0, intervention_year - current_year)
        base_results == IF years_before > 0
                        THEN run_advanced_climate_simulation(
                                 base_scenario, years_before, None, current_year,
                                 leftover).value
                        ELSE <<>>
        future_results == run_advanced_climate_simulation(
                              "strong_mitigation", 80 - years_before,
                              InterventionParams(base_results), current_year, leftover)
    IN  IF future_results.kind = "raise" THEN future_results
        ELSE [kind |-> "ok",
              value |-> [i \in 1..(Len(base_results) + Len(future_results.value)) |->
                  LET row == (base_results \o future_results.value)[i]
                  IN  [year |-> row.year, co2 |-> row.co2,
                       temperature |-> row.temperature, arctic_ice |-> row.arctic_ice,
                       intervention |-> row.year = intervention_year]]]

-----------------------------------------------------------------------------
(* utils/simulation/climate_simulator.py: AdvancedClimateSimulator.  Time  *)
(* is counted in thousandths of a year.  solve_ivp is modelled by one      *)
(* explicit Euler step per interval of t_eval; ocean_heat and sea_level,   *)
(* which feed back into nothing, are not integrated.                       *)

\* self.parameters after __init__
SimulatorParameters ==
    [carbon_sensitivity |-> 3000, ocean_heat_capacity |-> 14000,
     carbon_cycle_feedback |-> 150, aerosol_forcing |-> -1100,
     ocean_carbon_uptake |-> 700, land_carbon_uptake |-> 300,
     permafrost_feedback |-> 100, albedo_feedback |-> 300]

\* self.initial_state after __init__
AdvancedInitialState ==
    [temperature |-> 1100, co2_concentration |-> 417000, ocean_heat |-> 10000,
     sea_level |-> 0, ice_extent |-> 10500]

\* dict.update: the keys of new replace or extend those of old.
Update(old, new) ==
    [key \in DOMAIN old \cup DOMAIN new |->
        IF key \in DOMAIN new THEN new[key] ELSE old[key]]

\* The states set_initial_state is given: little ice left, a hot start.
InitialStateUpdates == {[ice_extent |-> 200], [temperature |-> 5000]}

\* The scenarios the two simulator classes are run with: the three both
\* know and one neither knows.
SimulatorScenarios ==
    {"business_as_usual", "moderate_mitigation", "strong_mitigation", "rcp_6_0"}

\* The time steps run_simulation is given, in thousandths of a year.
TimeSteps == {100, 400, 500, 1000}

\* create_emissions_scenario(scenario_type)(t)
create_emissions_scenario(scenario_type, t) ==
    CASE scenario_type = "business_as_usual" -> 10000 + RoundDiv(200 * t, Milli)
      [] scenario_type = "moderate_mitigation" ->
             IF t < 30000
             THEN 10000 + RoundDiv(100 * t, Milli) - RoundDiv(t * t, 100000)
             ELSE 7000
      [] scenario_type = "strong_mitigation" -> Mul(10000, Exp(- RoundDiv(50 * t, Milli)))
      [] OTHER -> 10000

\* climate_system_dynamics(t, y, emissions_scenario): the derivatives of
\* temperature, CO2 and ice extent.
climate_system_dynamics(t, y, scenario) ==
    LET emissions == create_emissions_scenario(scenario, t)
        co2_derivative ==
            RoundDiv(emissions * 1267, 10000)
            - RoundDiv((y.co2 - 280000) * 20, Milli)
            + Mul(y.temp, SimulatorParameters.carbon_cycle_feedback)
            + Mul(10500 - y.ice_extent, SimulatorParameters.permafrost_feedback)
        forcing == Mul(5350, Ln(y.co2, 280000)) + SimulatorParameters.aerosol_forcing
        temp_derivative ==
            RoundDiv(forcing * Milli, SimulatorParameters.ocean_heat_capacity)
            - Mul(100, y.temp)
        ice_extent_derivative ==
            - Mul(Mul(100, y.temp), SimulatorParameters.albedo_feedback)
    IN  [temp |-> temp_derivative, co2 |-> co2_derivative,
         ice_extent |-> ice_extent_derivative]

\* Mutant: the end point is left out.
ArangeLenOpen(years, time_step) == (years * Milli + time_step - 1) \div time_step

\* len(np.arange(0, years + time_step, time_step))
ArangeLen(years, time_step) == (years * Milli + time_step + time_step - 1) \div time_step

\* solve_ivp raises ValueError when t_eval has a point outside t_span.
TEvalWithinSpan(years, time_step) ==
    (ArangeLen(years, time_step) - 1) * time_step <= years * Milli

\* One integration step from the point k of t_eval to the next.
SolverStep(y, k, time_step, scenario) ==
    LET d == climate_system_dynamics(k * time_step, y, scenario)
    IN  [temp |-> y.temp + RoundDiv(d.temp * time_step, Milli),
         co2 |-> y.co2 + RoundDiv(d.co2 * time_step, Milli),
         ice_extent |-> y.ice_extent + RoundDiv(d.ice_extent * time_step, Milli)]

\* solution.t and solution.y: the state at the points k .. n-1 of t_eval,
\* from the state y at point k.  The interval is halved to keep the
\* evaluation shallow.
RECURSIVE SolveIvp(_, _, _, _, _)
SolveIvp(y, k, n, time_step, scenario) ==
    IF n - k <= 1 THEN <<[t |-> k * time_step, y |-> y]>>
    ELSE LET mid == (k + n) \div 2
             left == SolveIvp(y, k, mid, time_step, scenario)
             right == SolveIvp(SolverStep(left[Len(left)].y, mid - 1, time_step, scenario),
                               mid, n, time_step, scenario)
         IN  left \o right

\* np.maximum(0, solution.y[4])
MaximumZero(ice_extent) == Max(0, ice_extent)

\* AdvancedClimateSimulator.run_simulation; the year column is in
\* thousandths of a year: datetime.now().year + t.
run_simulation(years, scenario, time_step, state, current_year) ==
    IF ~TEvalWithinSpan(years, time_step)
    THEN [kind |-> "raise", value |-> "ValueError"]
    ELSE LET y0 == [temp |-> state.temperature, co2 |-> state.co2_concentration,
                    ice_extent |-> state.ice_extent]
             solution == SolveIvp(y0, 0, ArangeLen(years, time_step), time_step, scenario)
         IN  [kind |-> "ok",
              value |-> [i \in DOMAIN solution |->
                  [year |-> current_year * Milli + solution[i].t,
                   temperature |-> solution[i].y.temp,
                   co2 |-> solution[i].y.co2,
                   ice_extent |-> MaximumZero(solution[i].y.ice_extent)]]]

-----------------------------------------------------------------------------
(* pages/advanced_simulation.py: SimpleClimateSimulator.  The sea-level    *)
(* and uncertainty columns are left out.                                   *)

\* self.params after __init__
SimpleSimulatorParams ==
    [carbon_sensitivity |-> 3000, ocean_heat_capacity |-> 14000,
     carbon_cycle_feedback |-> 150, albedo_feedback |-> 300]

\* self.initial after __init__
SimpleInitial == [temperature |-> 1100, co2_concentration |-> 417000, ice_extent |-> 10500]

\* emission_rates, in ten-thousandths per year.
emission_rates ==
    [business_as_usual |-> 180, moderate_mitigation |-> 50, strong_mitigation |-> -200]

\* current_rate of year i, in ten-thousandths.
CurrentRate(scenario, i) ==
    IF scenario = "moderate_mitigation" /\ i > 30
    THEN emission_rates[scenario] \div 2
    ELSE emission_rates[scenario]

\* max(0, ice_values[i-1] + ice_change)
SimpleIceFloor(ice) == Max(0, ice)

\* The loop of SimpleClimateSimulator.run_simulation over range(1, len(time_points)).
RECURSIVE SimpleLoop(_, _, _, _, _)
SimpleLoop(prev, i, years, scenario, acc) ==
    IF i > years THEN acc
    ELSE LET co2 == prev.co2 + RoundDiv(prev.co2 * CurrentRate(scenario, i), 10000)
                    + Mul(Mul(prev.temperature, SimpleSimulatorParams.carbon_cycle_feedback), 500)
             forcing == RoundDiv(RoundDiv(5350 * Ln(co2, 280000), 693)
                                 * SimpleSimulatorParams.carbon_sensitivity, 3700)
             temperature == prev.temperature
                 + Mul(RoundDiv(forcing * Milli, SimpleSimulatorParams.ocean_heat_capacity), 100)
             ice_change == - Mul(Mul(SimpleSimulatorParams.albedo_feedback, prev.temperature), 100)
             row == [temperature |-> temperature, co2 |-> co2,
                     ice_extent |-> SimpleIceFloor(prev.ice_extent + ice_change)]
         IN  SimpleLoop(row, i + 1, years, scenario, Append(acc, row))

\* SimpleClimateSimulator.run_simulation: emission_rates[scenario] raises
\* KeyError for a scenario that is not one of its three.
simple_run_simulation(years, scenario, state, current_year) ==
    IF scenario \notin DOMAIN emission_rates
    THEN [kind |-> "raise", value |-> "KeyError"]
    ELSE LET first == [temperature |-> state.temperature,
                       co2 |-> state.co2_concentration,
                       ice_extent |-> state.ice_extent]
             values == SimpleLoop(first, 1, years, scenario, <<first>>)
         IN  [kind |-> "ok",
              value |-> [i \in DOMAIN values |->
                  [year |-> current_year + i - 1,
                   temperature |-> values[i].temperature,
                   co2 |-> values[i].co2,
                   ice_extent |-> values[i].ice_extent]]]

-----------------------------------------------------------------------------
(* ClimateInterventionSimulator: the catalogue and the entry points *)

\* _load_intervention_effects(): per intervention type, the two parameters
\* the overlay reads (when the catalogue sets them) and the effect on each
\* variable.
intervention_effects ==
    [renewable_energy |->
        [parameters |-> [implementation_speed |-> 500, coverage |-> 800],
         effects |-> [co2 |-> [factor_type |-> "emission_reduction", immediate_effect |-> -100,
                               annual_effect |-> -20, saturation_level |-> 700, delay_years |-> 2],
                      temperature |-> [factor_type |-> "trend_reduction", immediate_effect |-> 0,
                               annual_effect |-> -2, saturation_level |-> 600, delay_years |-> 10]]],
     reforestation |->
        [parameters |-> [implementation_speed |-> 300, coverage |-> 600],
         effects |-> [co2 |-> [factor_type |-> "carbon_sequestration", immediate_effect |-> -20,
                               annual_effect |-> -10, saturation_level |-> 300, delay_years |-> 5],
                      temperature |-> [factor_type |-> "trend_reduction", immediate_effect |-> 0,
                               annual_effect |-> -1, saturation_level |-> 200, delay_years |-> 15]]],
     industrial_efficiency |->
        [parameters |-> [implementation_speed |-> 600, coverage |-> 700],
         effects |-> [co2 |-> [factor_type |-> "emission_reduction", immediate_effect |-> -50,
                               annual_effect |-> -10, saturation_level |-> 500, delay_years |-> 1]]],
     carbon_pricing |->
        [parameters |-> [coverage |-> 600],
         effects |-> [co2 |-> [factor_type |-> "emission_reduction", immediate_effect |-> -30,
                               annual_effect |-> -10, saturation_level |-> 400, delay_years |-> 3]]],
     transportation_electrification |->
        [parameters |-> [implementation_speed |-> 400, coverage |-> 800],
         effects |-> [co2 |-> [factor_type |-> "emission_reduction", immediate_effect |-> -20,
                               annual_effect |-> -15, saturation_level |-> 600, delay_years |-> 4]]],
     building_efficiency |->
        [parameters |-> [implementation_speed |-> 300, coverage |-> 700],
         effects |-> [co2 |-> [factor_type |-> "emission_reduction", immediate_effect |-> -10,
                               annual_effect |-> -8, saturation_level |-> 400, delay_years |-> 2]]],
     agricultural_practices |->
        [parameters |-> [implementation_speed |-> 300, coverage |-> 600],
         effects |-> [co2 |-> [factor_type |-> "emission_reduction", immediate_effect |-> -10,
                               annual_effect |-> -5, saturation_level |-> 300, delay_years |-> 5]]],
     direct_air_capture |->
        [parameters |-> [implementation_speed |-> 200],
         effects |-> [co2 |-> [factor_type |-> "carbon_removal", immediate_effect |-> 0,
                               annual_effect |-> -10, saturation_level |-> 200, delay_years |-> 10]]]]

\* The intervention types callers name: three of the catalogue and one
\* that is not in it.
CalledTypes == {"renewable_energy", "industrial_efficiency", "carbon_pricing", "geoengineering"}

\* The custom parameters callers give: none (None or {}), or one key.
CustomParameters == {EmptyDict, [coverage |-> 900]}

InterventionDicts == [type : CalledTypes, parameters : CustomParameters]

InterventionLists ==
    UNION {[1..n -> InterventionDicts] : n \in 0..MaxInterventions}

\* predictor.generate_prediction(variable, None, years_to_simulate, scenario)
\* when the historical data are simulated with the given noise and
\* self.quantum_enabled is read as quantum_enabled.
generate_prediction(variable, years, noise, quantum_enabled) ==
    IF quantum_enabled
    THEN apply_quantum_advantage(Prediction(variable, years, noise), variable)
    ELSE Prediction(variable, years, noise)

\* The draws made before the historical data of a variable are simulated,
\* when the variables are predicted one after the other, co2 first.
DrawsBefore(variable, variables, draws) ==
    IF variable = "temperature" /\ "co2" \in variables THEN draws + 1 ELSE draws

\* The variables a package affects: the effects' keys of its known types.
PackageVariables(interventions) ==
    UNION {DOMAIN intervention_effects[interventions[k].type].effects :
              k \in {j \in DOMAIN interventions :
                        interventions[j].type \in DOMAIN intervention_effects}}

\* parameters or self.intervention_effects[intervention_type]["parameters"]
ParametersOr(parameters, intervention_type) ==
    IF DOMAIN parameters # {} THEN parameters
    ELSE intervention_effects[intervention_type].parameters

\* Mutant: every effect is applied to the original baseline.
OriginalBaseline(variable) == baselines[variable]

\* The frame the loop body applies an effect to: the current result.
CurrentBaseline(variable) == results[variable]

\* One pass of the loop "for intervention in interventions" of
\* simulate_policy_package: every effect of the intervention is applied to
\* the current result of its variable; an unknown type is skipped.
PackageBody(intervention, years) ==
    IF intervention.type \notin DOMAIN intervention_effects
    THEN results
    ELSE LET effects == intervention_effects[intervention.type].effects
         IN  [variable \in DOMAIN results |->
                 IF variable \in DOMAIN effects
                 THEN apply_intervention_effect(
                          CurrentBaseline(variable), effects[variable],
                          ParametersOr(intervention.parameters, intervention.type),
                          years)
                 ELSE results[variable]]

\* The predictions an intervention type asks for: one per effect.
EffectCount(intervention_type) ==
    IF intervention_type \in DOMAIN intervention_effects
    THEN Cardinality(DOMAIN intervention_effects[intervention_type].effects)
    ELSE 0

\* years_to_simulate=30, the default horizon of simulate_intervention.
years_to_simulate_default == 30

\* return None
ReturnedNone == [kind |-> "None", value |-> EmptyDict]

\* simulate_intervention: None for a type that is not in the catalogue,
\* else the overlaid temperature prediction when the type affects the
\* temperature, the overlaid CO2 prediction when it does not.
simulate_intervention(intervention_type, custom_parameters, years_to_simulate, draws, quantum_enabled) ==
    IF intervention_type \notin DOMAIN intervention_effects
    THEN ReturnedNone
    ELSE LET intervention == intervention_effects[intervention_type]
             parameters == Update(intervention.parameters, custom_parameters)
             effects == intervention.effects
             primary_variable == IF "temperature" \in DOMAIN effects
                                 THEN "temperature" ELSE "co2"
         IN  [kind |-> "ok",
              value |-> apply_intervention_effect(
                            generate_prediction(
                                primary_variable, years_to_simulate,
                                Noise(DrawsBefore(primary_variable, DOMAIN effects, draws)),
                                quantum_enabled),
                            effects[primary_variable], parameters, years_to_simulate)]

-----------------------------------------------------------------------------
(* AdvancedClimateSimulator.analyze_tipping_points *)

\* The temperatures (deg C, thousandths) and ice extents (million km2,
\* thousandths) of the analysed records: values below, at and above every
\* tested threshold.
TemperatureLevels == {1000, 1300, 1500, 1600, 2100, 2500, 3000}

IceLevels == {900, 1000, 1100}

\* The spacing of the records in thousandths of a year: run_simulation
\* spaces them by its time_step, so the year column holds fractions.
RecordSteps == {500, 1000}

\* The ice columns given together with a temperature column.
IceShapes == {"declining", "steady"}

IceColumn(shape, n) ==
    [i \in 1..n |-> IF shape = "declining" THEN 1200 - 100 * i ELSE 10500]

\* A results frame: its columns, and one record per row (a column the
\* frame does not have reads 0 and is never looked at).
ResultsFrame(columns, n, step, temperature, ice_extent) ==
    [columns |-> columns,
     rows |-> [i \in 1..n |->
                  [year |-> 2025 * Milli + (i - 1) * step,
                   temperature |-> IF "temperature" \in columns THEN temperature[i] ELSE 0,
                   ice_extent |-> IF "ice_extent" \in columns THEN ice_extent[i] ELSE 0]]]

\* int(x) of a non-negative float.
PyInt(x) == x \div Milli

LastRecord(rows) == rows[Len(rows)]

\* .iloc[0]
iloc0(rows) == rows[1]

\* One `if not <rows>.empty:` block: the year of the first masked row and
\* its label, or nothing.
Crossing(rows, year_key, label_key, label) ==
    IF rows = <<>> THEN EmptyDict
    ELSE (year_key :> PyInt(iloc0(rows).year)) @@ (label_key :> label)

\* results[results['temperature'] >= threshold]: the rows that satisfy
\* the test, in their order.
AtLeast(frame, threshold) ==
    SelectSeq(frame.rows, LAMBDA r : r.temperature >= threshold)

\* results[results['ice_extent'] <= threshold]
AtMost(frame, threshold) ==
    SelectSeq(frame.rows, LAMBDA r : r.ice_extent <= threshold)

analyze_tipping_points(frame) ==
    (IF "temperature" \in frame.columns
     THEN Crossing(AtLeast(frame, 1500), "1.5C_threshold_year",
                   "1.5C_threshold_risk", "Moderate")
          @@ Crossing(AtLeast(frame, 2000), "2.0C_threshold_year",
                      "2.0C_threshold_risk", "High")
          @@ Crossing(AtLeast(frame, 3000), "3.0C_threshold_year",
                      "3.0C_threshold_risk", "Severe")
     ELSE EmptyDict)
    @@ (IF "ice_extent" \in frame.columns
        THEN Crossing(AtMost(frame, 1000),
                      "ice_free_summer_year", "ice_free_impact",
                      "Major ecosystem disruption, albedo feedback acceleration")
        ELSE EmptyDict)
    @@ (IF "temperature" \in frame.columns
        THEN Crossing(AtLeast(frame, 2500), "permafrost_methane_year",
                      "permafrost_impact", "Accelerated warming due to methane release")
        ELSE EmptyDict)

\* The frames analysed: with a temperature column at either spacing, with
\* an ice column, or with both.
Columns(n, levels) == UNION {[1..m -> levels] : m \in 0..n}

ResultsFrames ==
    {ResultsFrame({"temperature"}, Len(temperature), step, temperature, <<>>) :
        temperature \in Columns(MaxRecords, TemperatureLevels), step \in RecordSteps}
    \cup {ResultsFrame({"ice_extent"}, Len(ice_extent), Milli, <<>>, ice_extent) :
             ice_extent \in Columns(MaxRecords, IceLevels)}
    \cup {ResultsFrame({"temperature", "ice_extent"}, Len(temperature), Milli,
                       temperature, IceColumn(shape, Len(temperature))) :
             temperature \in Columns(MaxRecords, TemperatureLevels), shape \in IceShapes}

\* A call of analyze_tipping_points.
AnalyzeTippingPoints ==
    /\ call = "none"
    /\ \E frame \in ResultsFrames :
          /\ call' = "analyze_tipping_points"
          /\ args' = [results |-> frame]
          /\ ret' = [kind |-> "ok", value |-> analyze_tipping_points(frame)]
    /\ UNCHANGED <<baselines, results, pending, initial_state, initial,
                   rng, predictor, threads>>

-----------------------------------------------------------------------------
(* The end-of-horizon comparison of the simulations page *)

\* The trajectories compared: records every year or every second year,
\* from one of three first years.
FirstYears == {2025, 2026, 2028}

YearSpacings == {1, 2}

Trajectory(first, spacing, n, offset) ==
    [i \in 1..n |->
        [year |-> first + (i - 1) * spacing,
         temperature |-> 1100 + 30 * (first + (i - 1) * spacing - 2025) + offset]]

Trajectories(offset) ==
    {Trajectory(first, spacing, n, offset) :
        first \in FirstYears, spacing \in YearSpacings, n \in 1..MaxCompared}

\* comp['year'].max()
YearMax(rows) ==
    CHOOSE y \in {rows[i].year : i \in DOMAIN rows} :
        \A i \in DOMAIN rows : rows[i].year <= y

\* min([comp['year'].max() for comp in comparisons.values()])
ComparisonYear(comparisons) ==
    CHOOSE y \in {YearMax(comparisons[key]) : key \in DOMAIN comparisons} :
        \A key \in DOMAIN comparisons : y <= YearMax(comparisons[key])

\* results[results['year'] == max_year]
AtYear(rows, max_year) == SelectSeq(rows, LAMBDA r : r.year = max_year)

\* Lines 287 - 293 and 418 - 428: the record of every trajectory at the
\* smallest of the last years; .iloc[0] of a frame with no row raises
\* IndexError.
end_of_horizon(comparisons) ==
    LET max_year == ComparisonYear(comparisons)
    IN  IF \E key \in DOMAIN comparisons : AtYear(comparisons[key], max_year) = <<>>
        THEN [kind |-> "raise", value |-> "IndexError"]
        ELSE [kind |-> "ok",
              value |-> [max_year |-> max_year,
                         data |-> [key \in DOMAIN comparisons |->
                                      AtYear(comparisons[key], max_year)[1].temperature]]]

\* The comparison of two trajectories.
CompareEndOfHorizon ==
    /\ call = "none"
    /\ \E bau \in Trajectories(400), mit \in Trajectories(0) :
          /\ call' = "end_of_horizon"
          /\ args' = [comparisons |-> [business_as_usual |-> bau,
                                       strong_mitigation |-> mit]]
          /\ ret' = end_of_horizon([business_as_usual |-> bau,
                                    strong_mitigation |-> mit])
    /\ UNCHANGED <<baselines, results, pending, initial_state, initial,
                   rng, predictor, threads>>

-----------------------------------------------------------------------------
(* QuantumEnhancedPredictor._apply_quantum_entanglement and the other
   consumers of prediction frames *)

\* self.state_coupling, in the order of the dict.
state_coupling ==
    << [var1 |-> "temperature", var2 |-> "co2", coupling |-> 700],
       [var1 |-> "temperature", var2 |-> "ice_extent", coupling |-> -600],
       [var1 |-> "temperature", var2 |-> "sea_level", coupling |-> 500],
       [var1 |-> "co2", var2 |-> "sea_level", coupling |-> 300],
       [var1 |-> "co2", var2 |-> "ice_extent", coupling |-> -400] >>

EnhancedVariables == {"temperature", "co2", "sea_level", "ice_extent"}

\* A frame as QuantumEnhancedPredictor.generate_prediction returns it:
\* years_to_predict + 1 rows with year, value, bounds and uncertainty.
EnhancedFrame(variable, years) ==
    [i \in 1..(years + 1) |->
        Row(2026 + i - 1,
            ShapeValue(CASE variable = "co2" -> "rising"
                         [] variable = "ice_extent" -> "falling"
                         [] OTHER -> "bumpy", i - 1),
            100 * i)]

\* np.sqrt of a number between 0 and 4.
Sqrt(x) == CHOOSE r \in 0..(2 * Milli) : r * r <= x * Milli /\ x * Milli < (r + 1) * (r + 1)

\* The loop over idx of lines 248 - 255: the values of both frames are
\* rewritten row by row, each deviation taken from the rows as they are.
RECURSIVE EntangledValues(_, _, _, _, _, _)
EntangledValues(v1, v2, u1, u2, coupling, idx) ==
    IF idx > Len(v1) THEN [var1 |-> v1, var2 |-> v2]
    ELSE LET dev1 == RoundDiv((v1[idx] - v1[idx - 1]) * Milli, u1[idx])
             dev2 == RoundDiv((v2[idx] - v2[idx - 1]) * Milli, u2[idx])
         IN  EntangledValues(
                 [v1 EXCEPT ![idx] = @ + Mul(Mul(Mul(coupling, dev2), u1[idx]), 300)],
                 [v2 EXCEPT ![idx] = @ + Mul(Mul(Mul(coupling, dev1), u2[idx]), 300)],
                 u1, u2, coupling, idx + 1)

\* One coupled pair, lines 246 - 265: both frames and both uncertainty
\* entries as they are after the pair is processed.
EntanglePair(state, pair) ==
    IF ~({pair.var1, pair.var2} \subseteq DOMAIN state.predictions) THEN state
    ELSE LET frame1 == state.predictions[pair.var1]
             frame2 == state.predictions[pair.var2]
             u1 == state.uncertainties[pair.var1]
             u2 == state.uncertainties[pair.var2]
             values == EntangledValues([i \in DOMAIN frame1 |-> frame1[i].value],
                                       [i \in DOMAIN frame2 |-> frame2[i].value],
                                       u1, u2, pair.coupling, 2)
             factor == Sqrt(Milli - Mul(Mul(pair.coupling, pair.coupling), 200))
             reduced1 == [i \in DOMAIN u1 |-> Mul(u1[i], factor)]
             reduced2 == [i \in DOMAIN u2 |-> Mul(u2[i], factor)]
             Updated(frame, value, reduced) ==
                 [i \in DOMAIN frame |->
                     [frame[i] EXCEPT !.value = value[i],
                                      !.lower_bound = value[i] - Band(reduced[i]),
                                      !.upper_bound = value[i] + Band(reduced[i])]]
         IN  [predictions |->
                 [state.predictions EXCEPT
                     ![pair.var1] = Updated(frame1, values.var1, reduced1),
                     ![pair.var2] = Updated(frame2, values.var2, reduced2)],
              uncertainties |->
                 [state.uncertainties EXCEPT ![pair.var1] = reduced1,
                                             ![pair.var2] = reduced2]]

RECURSIVE EntanglePairs(_, _)
EntanglePairs(state, pairs) ==
    IF pairs = <<>> THEN state
    ELSE EntanglePairs(EntanglePair(state, Head(pairs)), Tail(pairs))

\* _apply_quantum_entanglement: the frames of the predictions dict it was
\* given, and the uncertainties dict, as they are when it returns; it
\* returns these same objects.
apply_quantum_entanglement(predictions, uncertainties) ==
    EntanglePairs([predictions |-> predictions, uncertainties |-> uncertainties],
                  state_coupling)

\* A call of _apply_quantum_entanglement; baselines holds the frames as
\* they were given, results the same frame objects at the return.
ApplyQuantumEntanglement ==
    /\ call = "none"
    /\ \E variables \in (SUBSET EnhancedVariables) \ {{}}, years \in 1..MaxYears :
          LET predictions == [variable \in variables |-> EnhancedFrame(variable, years)]
              uncertainties == [variable \in variables |->
                                   [i \in 1..(years + 1) |->
                                       predictions[variable][i].uncertainty]]
              after == apply_quantum_entanglement(predictions, uncertainties)
          IN  /\ call' = "_apply_quantum_entanglement"
              /\ args' = [predictions |-> predictions, uncertainties |-> uncertainties]
              /\ ret' = [kind |-> "ok", value |-> after]
              /\ baselines' = predictions
              /\ results' = after.predictions
    /\ UNCHANGED <<pending, initial_state, initial, rng, predictor, threads>>

\* A call of _apply_quantum_advantage: it works on predictions.copy()
\* (line 472), so the frame it was given is at the return as it was given.
ApplyQuantumAdvantage ==
    /\ call = "none"
    /\ \E variable \in {"temperature", "co2"}, years \in 1..MaxYears :
          LET predictions == Prediction(variable, years, Noise(0))
          IN  /\ call' = "_apply_quantum_advantage"
              /\ args' = [predictions |-> predictions, climate_variable |-> variable]
              /\ ret' = [kind |-> "ok", value |-> apply_quantum_advantage(predictions, variable)]
              /\ baselines' = [v \in {variable} |-> predictions]
              /\ results' = [v \in {variable} |-> predictions]
    /\ UNCHANGED <<pending, initial_state, initial, rng, predictor, threads>>

-----------------------------------------------------------------------------
(* The runs of two scenarios by one integrator from one initial state *)

\* years=80, the default horizon of the integrators.
years_default == 80

\* The horizons the scenarios are run over: every tenth year to the default.
Horizons == {10 * k : k \in 1..(years_default \div 10)}

Integrators ==
    {"run_climate_simulation", "run_advanced_climate_simulation",
     "AdvancedClimateSimulator.run_simulation"}

\* What both runs share: the params of the two functions, the time step
\* and the initial state of the simulator.
SharedSettings(integrator) ==
    CASE integrator = "run_climate_simulation" ->
             { DEFAULT_PARAMS,
               [DEFAULT_PARAMS EXCEPT !.ocean_heat_capacity = 7000],
               [DEFAULT_PARAMS EXCEPT !.current_co2 = 350000] }
      [] integrator = "run_advanced_climate_simulation" ->
             { None,
               [AdvancedDefaults EXCEPT !.ocean_heat_capacity = 7000],
               [AdvancedDefaults EXCEPT !.current_co2 = 350000] }
      [] OTHER ->
             [time_step : {100, 1000},
              state : {AdvancedInitialState}
                      \cup {Update(AdvancedInitialState, new_state) :
                                new_state \in InitialStateUpdates}]

\* The temperature of the last row of one run.
FinalTemperature(integrator, scenario, years, setting, current_year) ==
    CASE integrator = "run_climate_simulation" ->
             run_climate_simulation(scenario, years, setting, current_year)[years].temperature
      [] integrator = "run_advanced_climate_simulation" ->
             run_advanced_climate_simulation(scenario, years, setting, current_year,
                                             NaN).value[years + 1].temperature
      [] OTHER ->
             LET table == run_simulation(years, scenario, setting.time_step,
                                         setting.state, current_year).value
             IN  Fin(table[Len(table)].temperature)

\* The runs of the business_as_usual and the moderate_mitigation scenario
\* by one integrator, one after the other with nothing changed between.
RunScenarios ==
    /\ call = "none"
    /\ \E integrator \in Integrators, years \in Horizons, current_year \in CurrentYears :
          \E setting \in SharedSettings(integrator) :
              /\ call' = "scenario_runs"
              /\ args' = [integrator |-> integrator, years |-> years,
                          setting |-> setting, current_year |-> current_year]
              /\ ret' = [kind |-> "ok",
                         value |-> [scenario \in {"business_as_usual", "moderate_mitigation"} |->
                                       FinalTemperature(integrator, scenario, years,
                                                        setting, current_year)]]
    /\ UNCHANGED <<baselines, results, pending, initial_state, initial,
                   rng, predictor, threads>>

\* The threads that share the predictor: one draws charts and metrics, one
\* runs predictions.
Threads == {"charts", "runs"}

IdleThread == [pc |-> "idle", args |-> EmptyDict, draws |-> 0, flags |-> <<>>,
               returned |-> <<>>]

\* The horizons the thread "runs" asks for.
RunYears == {1, MaxYears}

\* The calls of the thread "runs".
RunArguments ==
    [op : {"generate_prediction"}, variable : {"co2", "temperature"}, years : RunYears]
    \cup [op : {"simulate_intervention"},
          intervention_type : CalledTypes \cap DOMAIN intervention_effects,
          years : RunYears]

Idle == /\ baselines = EmptyDict
        /\ results = EmptyDict
        /\ pending = <<>>

NoReturn == [kind |-> "none", value |-> EmptyDict]

\* Every behaviour is one call of one entry point on freshly constructed
\* objects: the entry points are enabled in the initial state only.

\* A direct call of _apply_intervention_effect.
ApplyEffect ==
    \E years \in 1..MaxYears, shape \in BaselineShapes,
       effect \in EffectDescriptors, parameters \in ParameterSets :
        LET baseline == BaselineFrame(shape, years)
        IN  /\ call = "none"
            /\ call' = "_apply_intervention_effect"
            /\ args' = [baseline |-> baseline, effect |-> effect,
                        parameters |-> parameters, years |-> years]
            /\ ret' = [kind |-> "ok",
                       value |-> apply_intervention_effect(baseline, effect, parameters, years)]
            /\ baselines' = EmptyDict
            /\ results' = EmptyDict
            /\ pending' = <<>>
            /\ UNCHANGED <<initial_state, initial, rng, predictor, threads>>

\* A call of run_climate_simulation.
RunClimateSimulation ==
    \E scenario \in CalledScenarios, years \in 1..MaxYears,
       params \in SimpleParams, current_year \in CurrentYears :
        /\ call = "none"
        /\ call' = "run_climate_simulation"
        /\ args' = [scenario |-> scenario, years |-> years, params |-> params,
                    current_year |-> current_year]
        /\ ret' = [kind |-> "ok",
                   value |-> run_climate_simulation(scenario, years, params, current_year)]
        /\ UNCHANGED <<baselines, results, pending, initial_state, initial, rng, predictor, threads>>

\* A call of run_advanced_climate_simulation.
RunAdvancedClimateSimulation ==
    \E scenario \in CalledScenarios, years \in 1..MaxYears,
       params \in AdvancedParams, current_year \in CurrentYears,
       leftover \in SolverLeftovers :
        /\ call = "none"
        /\ call' = "run_advanced_climate_simulation"
        /\ args' = [scenario |-> scenario, years |-> years, params |-> params,
                    current_year |-> current_year]
        /\ ret' = run_advanced_climate_simulation(scenario, years, params, current_year,
                                                  leftover)
        /\ UNCHANGED <<baselines, results, pending, initial_state, initial, rng, predictor, threads>>

\* A call of generate_intervention_simulation.
GenerateInterventionSimulation ==
    \E base_scenario \in CalledScenarios, intervention_year \in InterventionYears,
       current_year \in CurrentYears, leftover \in SolverLeftovers :
        /\ call = "none"
        /\ call' = "generate_intervention_simulation"
        /\ args' = [base_scenario |-> base_scenario,
                    intervention_year |-> intervention_year,
                    current_year |-> current_year]
        /\ ret' = generate_intervention_simulation(base_scenario, intervention_year,
                                                   current_year, leftover)
        /\ UNCHANGED <<baselines, results, pending, initial_state, initial, rng, predictor, threads>>

\* AdvancedClimateSimulator.set_initial_state on the constructed object.
SetInitialState ==
    \E new_state \in InitialStateUpdates :
        /\ call = "none"
        /\ call' = "AdvancedClimateSimulator.set_initial_state"
        /\ args' = [new_state |-> new_state]
        /\ initial_state' = Update(initial_state, new_state)
        /\ UNCHANGED <<ret, baselines, results, pending, initial, rng, predictor, threads>>

\* AdvancedClimateSimulator.run_simulation, on the object as constructed
\* or after set_initial_state.
RunSimulation ==
    \E years \in 1..MaxYears, scenario \in SimulatorScenarios,
       time_step \in TimeSteps, current_year \in CurrentYears :
        /\ call \in {"none", "AdvancedClimateSimulator.set_initial_state"}
        /\ call' = "AdvancedClimateSimulator.run_simulation"
        /\ args' = [years |-> years, scenario |-> scenario, time_step |-> time_step,
                    current_year |-> current_year]
        /\ ret' = run_simulation(years, scenario, time_step, initial_state, current_year)
        /\ UNCHANGED <<baselines, results, pending, initial_state, initial, rng, predictor, threads>>

\* SimpleClimateSimulator.set_initial_state on the constructed object.
SimpleSetInitialState ==
    \E new_initial \in InitialStateUpdates :
        /\ call = "none"
        /\ call' = "SimpleClimateSimulator.set_initial_state"
        /\ args' = [new_initial |-> new_initial]
        /\ initial' = Update(initial, new_initial)
        /\ UNCHANGED <<ret, baselines, results, pending, initial_state, rng, predictor, threads>>

\* SimpleClimateSimulator.run_simulation, on the object as constructed or
\* after set_initial_state.
SimpleRunSimulation ==
    \E years \in 1..MaxYears, scenario \in SimulatorScenarios,
       current_year \in CurrentYears :
        /\ call \in {"none", "SimpleClimateSimulator.set_initial_state"}
        /\ call' = "SimpleClimateSimulator.run_simulation"
        /\ args' = [years |-> years, scenario |-> scenario,
                    current_year |-> current_year]
        /\ ret' = simple_run_simulation(years, scenario, initial, current_year)
        /\ UNCHANGED <<baselines, results, pending, initial_state, initial, rng, predictor, threads>>

\* A call of simulate_intervention.
SimulateIntervention ==
    \E intervention_type \in CalledTypes, custom_parameters \in CustomParameters,
       years \in 1..MaxYears \cup {years_to_simulate_default} :
        /\ call = "none"
        /\ call' = "simulate_intervention"
        /\ args' = [intervention_type |-> intervention_type,
                    custom_parameters |-> custom_parameters,
                    years_to_simulate |-> years]
        /\ ret' = simulate_intervention(intervention_type, custom_parameters, years,
                                        rng, predictor.quantum_enabled)
        /\ rng' = rng + EffectCount(intervention_type)
        /\ UNCHANGED <<baselines, results, pending, initial_state, initial,
                       predictor, threads>>

\* QuantumClimatePredictor(quantum_simulation_enabled=False): a predictor
\* other than the one ClimateInterventionSimulator constructs.
NewPredictor ==
    /\ call = "none"
    /\ call' = "QuantumClimatePredictor"
    /\ predictor' = [quantum_simulation_enabled |-> FALSE, quantum_enabled |-> FALSE]
    /\ UNCHANGED <<args, ret, baselines, results, pending, initial_state, initial,
                   rng, threads>>

\* The steps below are the operations of the threads that share the
\* predictor; a step of one thread may fall between two steps of the other.
InSession == call \in {"none", "QuantumClimatePredictor"}

MayStart(thread) ==
    /\ InSession
    /\ threads[thread].pc = "idle"
    /\ Len(threads[thread].returned) < MaxCalls

\* Thread "runs" calls generate_prediction, directly or through
\* simulate_intervention; a later call repeats the arguments of the first.
\* Up to line 68 the historical data are simulated (the draws) and the
\* prediction method has run.
RunStart ==
    \E op \in {"generate_prediction", "simulate_intervention"},
       a \in RunArguments :
        /\ MayStart("runs")
        /\ a.op = op
        /\ threads["runs"].returned # <<>> => a = threads["runs"].args
        /\ call' = "QuantumClimatePredictor"
        /\ threads' = [threads EXCEPT !["runs"] =
                          [@ EXCEPT !.pc = "line_71", !.args = a, !.draws = rng]]
        /\ rng' = rng + (IF op = "generate_prediction" THEN 1
                         ELSE EffectCount(a.intervention_type))
        /\ UNCHANGED <<args, ret, baselines, results, pending, initial_state, initial,
                       predictor>>

\* Line 71: self.quantum_enabled is read, and the call returns.
RunReturn ==
    /\ InSession
    /\ threads["runs"].pc = "line_71"
    /\ LET me == threads["runs"]
           flag == predictor.quantum_enabled
           value == IF me.args.op = "generate_prediction"
                    THEN generate_prediction(me.args.variable, me.args.years,
                                             Noise(me.draws), flag)
                    ELSE simulate_intervention(me.args.intervention_type, EmptyDict,
                                               me.args.years, me.draws, flag).value
       IN  threads' = [threads EXCEPT !["runs"] =
                          [@ EXCEPT !.pc = "idle",
                                    !.returned = Append(@, [flag |-> flag, value |-> value])]]
    /\ UNCHANGED <<call, args, ret, baselines, results, pending, initial_state, initial,
                   rng, predictor>>

\* generate_comparison_chart, lines 499 - 503: the historical data are
\* simulated and self.quantum_enabled = False.
ChartStart ==
    /\ MayStart("charts")
    /\ call' = "QuantumClimatePredictor"
    /\ threads' = [threads EXCEPT !["charts"] =
                      [@ EXCEPT !.pc = "classical",
                                !.args = [op |-> "generate_comparison_chart"]]]
    /\ rng' = rng + 1
    /\ predictor' = [predictor EXCEPT !.quantum_enabled = FALSE]
    /\ UNCHANGED <<args, ret, baselines, results, pending, initial_state, initial>>

\* Lines 504 - 509: the classical generate_prediction reads the flag.
ChartClassical ==
    /\ InSession
    /\ threads["charts"].pc = "classical"
    /\ threads' = [threads EXCEPT !["charts"] =
                      [@ EXCEPT !.pc = "line_512", !.draws = 0,
                                !.flags = <<predictor.quantum_enabled>>]]
    /\ UNCHANGED <<call, args, ret, baselines, results, pending, initial_state, initial,
                   rng, predictor>>

\* Line 512 (generate_comparison_chart) and line 584 (get_metrics):
\* self.quantum_enabled = True.
Enable(thread, at, then) ==
    /\ threads[thread].pc = at
    /\ threads' = [threads EXCEPT ![thread] = [@ EXCEPT !.pc = then]]
    /\ predictor' = [predictor EXCEPT !.quantum_enabled = TRUE]

ChartEnable ==
    /\ InSession
    /\ Enable("charts", "line_512", "quantum")
    /\ UNCHANGED <<call, args, ret, baselines, results, pending, initial_state, initial,
                   rng>>

\* Lines 513 - 518: the quantum generate_prediction reads the flag; the
\* chart is drawn from the two predictions.
ChartQuantum ==
    /\ InSession
    /\ threads["charts"].pc = "quantum"
    /\ threads' = [threads EXCEPT !["charts"] =
                      [@ EXCEPT !.pc = "idle", !.flags = <<>>,
                                !.returned = Append(@, [flag |-> predictor.quantum_enabled,
                                                       value |-> threads["charts"].flags])]]
    /\ UNCHANGED <<call, args, ret, baselines, results, pending, initial_state, initial,
                   rng, predictor>>

\* get_metrics, line 584: self.quantum_enabled = True.
MetricsStart ==
    /\ MayStart("charts")
    /\ call' = "QuantumClimatePredictor"
    /\ threads' = [threads EXCEPT !["charts"] =
                      [@ EXCEPT !.pc = "line_585", !.args = [op |-> "get_metrics"]]]
    /\ predictor' = [predictor EXCEPT !.quantum_enabled = TRUE]
    /\ UNCHANGED <<args, ret, baselines, results, pending, initial_state, initial, rng>>

\* get_metrics, line 585 on: generate_prediction simulates the historical
\* data and reads the flag; the metrics are returned.
MetricsReturn ==
    /\ InSession
    /\ threads["charts"].pc = "line_585"
    /\ threads' = [threads EXCEPT !["charts"] =
                      [@ EXCEPT !.pc = "idle",
                                !.returned = Append(@, [flag |-> predictor.quantum_enabled,
                                                       value |-> <<>>])]]
    /\ rng' = rng + 1
    /\ UNCHANGED <<call, args, ret, baselines, results, pending, initial_state, initial,
                   predictor>>

\* simulate_policy_package up to its loop: the empty list returns None,
\* else the baselines are predicted and copied into results.
PackageCall ==
    \E interventions \in InterventionLists, years \in 1..MaxYears :
        /\ call = "none"
        /\ call' = "simulate_policy_package"
        /\ args' = [interventions |-> interventions, years_to_simulate |-> years]
        /\ IF interventions = <<>>
           THEN /\ ret' = ReturnedNone
                /\ baselines' = EmptyDict
                /\ results' = EmptyDict
                /\ pending' = <<>>
           ELSE /\ ret' = [kind |-> "running", value |-> EmptyDict]
                /\ baselines' = [variable \in PackageVariables(interventions) |->
                                    generate_prediction(
                                        variable, years,
                                        Noise(DrawsBefore(variable,
                                                  PackageVariables(interventions), rng)),
                                        predictor.quantum_enabled)]
                /\ results' = baselines'
                /\ pending' = interventions
        /\ rng' = rng + Cardinality(PackageVariables(interventions))
        /\ UNCHANGED <<initial_state, initial, predictor, threads>>

\* One pass of the loop over the interventions.
PackageStep ==
    /\ call = "simulate_policy_package"
    /\ ret.kind = "running"
    /\ pending # <<>>
    /\ results' = PackageBody(Head(pending), args.years_to_simulate)
    /\ pending' = Tail(pending)
    /\ UNCHANGED <<call, args, ret, baselines, initial_state, initial, rng, predictor, threads>>

\* The loop is over: every result gets the package_id column and the
\* results dict is returned.
PackageReturn ==
    /\ call = "simulate_policy_package"
    /\ ret.kind = "running"
    /\ pending = <<>>
    /\ results' = [variable \in DOMAIN results |->
                      [results[variable] EXCEPT !.package_id = "policy_package"]]
    /\ ret' = [kind |-> "ok", value |-> results']
    /\ UNCHANGED <<call, args, baselines, pending, initial_state, initial, rng, predictor, threads>>

Init ==
    /\ call = "none"
    /\ args = EmptyDict
    /\ ret = NoReturn
    /\ Idle
    /\ initial_state = AdvancedInitialState
    /\ initial = SimpleInitial
    /\ rng = 0
    /\ predictor = [quantum_simulation_enabled |-> TRUE, quantum_enabled |-> TRUE]
    /\ threads = [thread \in Threads |-> IdleThread]

Next ==
    \/ ApplyEffect
    \/ PackageCall
    \/ PackageStep
    \/ PackageReturn
    \/ RunClimateSimulation
    \/ RunAdvancedClimateSimulation
    \/ GenerateInterventionSimulation
    \/ SetInitialState
    \/ RunSimulation
    \/ SimpleSetInitialState
    \/ SimpleRunSimulation
    \/ SimulateIntervention

Spec == Init /\ [][Next]_vars

\* The operations on one predictor shared by two threads.
PredictorNext ==
    \/ NewPredictor
    \/ RunStart
    \/ RunReturn
    \/ ChartStart
    \/ ChartClassical
    \/ ChartEnable
    \/ ChartQuantum
    \/ MetricsStart
    \/ MetricsReturn

PredictorSpec == Init /\ [][PredictorNext]_vars

\* The analyses of one results frame.
TippingSpec == Init /\ [][AnalyzeTippingPoints]_vars

\* The comparisons of one pair of trajectories.
ComparisonSpec == Init /\ [][CompareEndOfHorizon]_vars

\* The consumers of prediction frames.
ConsumerNext ==
    \/ ApplyQuantumAdvantage
    \/ ApplyQuantumEntanglement

ConsumerSpec == Init /\ [][ConsumerNext]_vars

\* The scenario runs of one integrator.
ScenarioSpec == Init /\ [][RunScenarios]_vars

-----------------------------------------------------------------------------
(* _apply_intervention_effect called with a baseline and a years argument *)
(* that are chosen independently of each other.                           *)

\* len(np.array(range(years + 1))): the length of implementation_curve.
CurveLen(years) == years + 1

\* implementation_curve[year_index] of an affected row lies outside the
\* array (year_index is never negative: it is an offset from the minimum).
CurveIndexError(baseline, effect, years) ==
    /\ effect.factor_type \in LevelFactorTypes \cup {"trend_reduction"}
    /\ \E i \in DOMAIN baseline.rows :
          LET year_index == baseline.rows[i].year - MinYear(baseline)
          IN  /\ Affected(year_index, effect.delay_years)
              /\ year_index >= CurveLen(years)

\* baseline.iloc[-1] of the trend branch on a baseline without rows.
TrendIndexError(baseline, effect) ==
    effect.factor_type = "trend_reduction" /\ baseline.rows = <<>>

\* The outcome of one call of _apply_intervention_effect: IndexError from
\* baseline.iloc[-1] or from implementation_curve[year_index], else the
\* modified copy.
apply_intervention_effect_outcome(baseline, effect, parameters, years) ==
    IF TrendIndexError(baseline, effect) \/ CurveIndexError(baseline, effect, years)
    THEN [kind |-> "raise", value |-> "IndexError"]
    ELSE [kind |-> "ok",
          value |-> apply_intervention_effect(baseline, effect, parameters, years)]

\* A direct call of _apply_intervention_effect with any baseline length
\* and any years argument.
ApplyEffectAnyYears ==
    /\ call = "none"
    /\ \E n \in 0..MaxRecords, years \in 0..MaxYears, shape \in BaselineShapes,
          effect \in EffectDescriptors, parameters \in ParameterSets :
        LET baseline == BaselineFrame(shape, n)
        IN  /\ call' = "_apply_intervention_effect"
            /\ args' = [baseline |-> baseline, effect |-> effect,
                        parameters |-> parameters, years |-> years]
            /\ ret' = apply_intervention_effect_outcome(baseline, effect, parameters, years)
            /\ baselines' = EmptyDict
            /\ results' = EmptyDict
            /\ pending' = <<>>
            /\ UNCHANGED <<initial_state, initial, rng, predictor, threads>>

OverlaySpec == Init /\ [][ApplyEffectAnyYears]_vars

-----------------------------------------------------------------------------
(* QuantumClimatePredictor: the prediction methods and generate_prediction *)
(* on historical data given by the caller or simulated.                    *)

RECURSIVE ISqrtFrom(_, _)
ISqrtFrom(n, r) ==
    LET next == (r + n \div r) \div 2
    IN  IF next >= r THEN r ELSE ISqrtFrom(n, next)

\* The integer part of the square root of n.
ISqrt(n) == IF n = 0 THEN 0 ELSE ISqrtFrom(n, n)

\* np.sqrt of a fixed-point number.
SqrtOf(x) == ISqrt(x * Milli)

PredictorScenarios == {"low_emissions", "moderate", "high_emissions", "rcp_8_5"}

\* The branch a scenario takes: every unknown scenario takes the else
\* branch, which repeats the values of moderate.
Branch(scenario) ==
    IF scenario \in {"low_emissions", "high_emissions"} THEN scenario ELSE "moderate"

\* pd.DataFrame(predictions), with the columns a consumer adds later.
Frame(rows) == [rows |-> rows, intervention |-> FALSE, package_id |-> "absent"]

\* _simulate_temperature_prediction; acceleration is in millionths.
simulate_temperature_prediction(last_year, last_value, years_to_predict, scenario) ==
    LET s == CASE Branch(scenario) = "low_emissions" ->
                      [trend |-> 10, uncertainty |-> 5, acceleration |-> 100]
               [] Branch(scenario) = "moderate" ->
                      [trend |-> 25, uncertainty |-> 10, acceleration |-> 500]
               [] Branch(scenario) = "high_emissions" ->
                      [trend |-> 40, uncertainty |-> 20, acceleration |-> 1000]
    IN  Frame([k \in 1..years_to_predict |->
            LET i == k - 1
            IN  Row(last_year + k,
                       last_value + s.trend * (i + 1)
                           + RoundDiv(s.acceleration * ((i * (i + 1)) \div 2), Milli),
                       Mul(s.uncertainty, SqrtOf((i + 1) * Milli)))])

\* _simulate_sea_level_prediction
simulate_sea_level_prediction(last_year, last_value, years_to_predict, scenario) ==
    LET s == CASE Branch(scenario) = "low_emissions" ->
                      [initial_rate |-> 3000, uncertainty |-> 500, acceleration |-> 20]
               [] Branch(scenario) = "moderate" ->
                      [initial_rate |-> 3500, uncertainty |-> 1000, acceleration |-> 50]
               [] Branch(scenario) = "high_emissions" ->
                      [initial_rate |-> 4000, uncertainty |-> 2000, acceleration |-> 100]
    IN  Frame([t \in 1..years_to_predict |->
            Row(last_year + t,
                   last_value + s.initial_rate * t + RoundDiv(s.acceleration * t * t, 2),
                   Mul(s.uncertainty, SqrtOf(t * Milli)))])

\* The sum of trend * (1 + rate_change * j) for j in first..last.
RECURSIVE TrendSum(_, _, _, _)
TrendSum(trend, rate_change, first, last) ==
    IF first > last THEN 0
    ELSE IF first = last THEN Mul(trend, Milli + rate_change * first)
    ELSE LET middle == (first + last) \div 2
         IN  TrendSum(trend, rate_change, first, middle)
                 + TrendSum(trend, rate_change, middle + 1, last)

\* value += trend * (1 + rate_change * j) for j in range(t)
CumulativeTrend(trend, rate_change, t) == TrendSum(trend, rate_change, 0, t - 1)

\* _simulate_co2_prediction
simulate_co2_prediction(last_year, last_value, years_to_predict, scenario) ==
    LET s == CASE Branch(scenario) = "low_emissions" ->
                      [trend |-> 1500, uncertainty |-> 300, rate_change |-> -20]
               [] Branch(scenario) = "moderate" ->
                      [trend |-> 2500, uncertainty |-> 500, rate_change |-> 0]
               [] Branch(scenario) = "high_emissions" ->
                      [trend |-> 3500, uncertainty |-> 800, rate_change |-> 50]
    IN  Frame([t \in 1..years_to_predict |->
            Row(last_year + t,
                   last_value + CumulativeTrend(s.trend, s.rate_change, t),
                   Mul(s.uncertainty, SqrtOf(t * Milli)))])

\* approaching_min = max(0, 1 - (value - min_extent) / (last_value - min_extent))
\* for a last value above the minimum extent.
ApproachingMin(value, last_value, min_extent) ==
    Max(0, Milli - RoundDiv((value - min_extent) * Milli, last_value - min_extent))

\* _simulate_ice_extent_prediction: the lower bound is floored at 0.
simulate_ice_extent_prediction(last_year, last_value, years_to_predict, scenario) ==
    LET s == CASE Branch(scenario) = "low_emissions" ->
                      [trend |-> -50, uncertainty |-> 200, min_extent |-> 1000]
               [] Branch(scenario) = "moderate" ->
                      [trend |-> -100, uncertainty |-> 300, min_extent |-> 500]
               [] Branch(scenario) = "high_emissions" ->
                      [trend |-> -150, uncertainty |-> 500, min_extent |-> 100]
    IN  Frame([t \in 1..years_to_predict |->
            LET value == Max(last_value + s.trend * t, s.min_extent)
                approaching_min == ApproachingMin(value, last_value, s.min_extent)
                year_uncertainty ==
                    Mul(Mul(s.uncertainty, SqrtOf(t * Milli)),
                        Milli - RoundDiv(approaching_min, 2))
            IN  [Row(last_year + t, value, year_uncertainty)
                    EXCEPT !.lower_bound = Max(@, 0)]])

\* x**t for a natural number t, by repeated squaring.
RECURSIVE IntPower(_, _)
IntPower(x, t) ==
    IF t = 0 THEN Milli
    ELSE LET half == IntPower(x, t \div 2)
         IN  IF t % 2 = 0 THEN Mul(half, half) ELSE Mul(Mul(half, half), x)

\* base_rate * (1 + growth_rate)**t
Compound(base_rate, growth_rate, t) == MulWide(IntPower(Milli + growth_rate, t), base_rate)

\* _simulate_extreme_events_prediction on historical data with a year
\* column: the lower bound is floored at 0.
simulate_extreme_events_prediction(last_year, last_value, years_to_predict, scenario) ==
    LET s == CASE Branch(scenario) = "low_emissions" ->
                      [base_rate |-> 10000, growth_rate |-> 20, uncertainty_factor |-> 100]
               [] Branch(scenario) = "moderate" ->
                      [base_rate |-> 12000, growth_rate |-> 40, uncertainty_factor |-> 150]
               [] Branch(scenario) = "high_emissions" ->
                      [base_rate |-> 15000, growth_rate |-> 70, uncertainty_factor |-> 200]
    IN  Frame([t \in 1..years_to_predict |->
            LET expected_events == Compound(s.base_rate, s.growth_rate, t)
                uncertainty ==
                    MulWide(MulWide(expected_events, s.uncertainty_factor), SqrtOf(t * Milli))
            IN  [Row(last_year + t, expected_events, uncertainty)
                    EXCEPT !.lower_bound = Max(0, @)]])

\* self.simulation_methods
simulation_methods ==
    {"temperature", "sea_level", "co2", "ice_extent", "extreme_events"}

\* prediction_method(historical_data, years_to_predict, scenario)
prediction_method(climate_variable, historical_data, years_to_predict, scenario) ==
    LET last_year  == historical_data.last_year
        last_value == historical_data.last_value
    IN  CASE climate_variable = "temperature" ->
                 simulate_temperature_prediction(last_year, last_value, years_to_predict, scenario)
          [] climate_variable = "sea_level" ->
                 simulate_sea_level_prediction(last_year, last_value, years_to_predict, scenario)
          [] climate_variable = "co2" ->
                 simulate_co2_prediction(last_year, last_value, years_to_predict, scenario)
          [] climate_variable = "ice_extent" ->
                 simulate_ice_extent_prediction(last_year, last_value, years_to_predict, scenario)
          [] climate_variable = "extreme_events" ->
                 simulate_extreme_events_prediction(last_year, last_value, years_to_predict, scenario)

\* The horizons a prediction is asked for: years_to_predict=10 is the
\* default of generate_prediction, 30 the default of simulate_intervention.
PredictionHorizons == {1, MaxYears, years_to_simulate_default, 70}

\* The last year of _generate_simulated_historical_data and the mean of
\* its values in that year, before the noise is added.
SimulatedHistory(climate_variable) ==
    [last_year |-> 2026,
     last_value |-> CASE climate_variable = "temperature" -> 910
                      [] climate_variable = "co2" -> 410150
                      [] climate_variable = "sea_level" -> 82500
                      [] climate_variable = "ice_extent" -> 9250
                      [] OTHER -> 0]

\* Historical data a caller hands in: the last year and the mean of the
\* values of that year.
GivenHistory(climate_variable) ==
    [last_year |-> 2025,
     last_value |-> CASE climate_variable = "temperature" -> 1100
                      [] climate_variable = "co2" -> 417000
                      [] climate_variable = "sea_level" -> 0
                      [] climate_variable = "ice_extent" -> 2000
                      [] OTHER -> 0]

\* QuantumClimatePredictor.generate_prediction: None for a variable without
\* a simulation method, else the prediction of the variable's method,
\* passed through _apply_quantum_advantage when quantum_enabled is set.
predictor_generate_prediction(climate_variable, historical_data, years_to_predict, scenario, noise, quantum_enabled) ==
    IF climate_variable \notin simulation_methods THEN ReturnedNone
    ELSE LET history == IF IsNone(historical_data)
                        THEN [SimulatedHistory(climate_variable) EXCEPT !.last_value = @ + noise]
                        ELSE historical_data
             predictions == prediction_method(climate_variable, history,
                                              years_to_predict, scenario)
         IN  [kind |-> "ok",
              value |-> IF quantum_enabled
                        THEN apply_quantum_advantage(predictions, climate_variable)
                        ELSE predictions]

\* A call of generate_prediction on a predictor constructed with either
\* value of quantum_simulation_enabled.
PredictorGeneratePrediction ==
    /\ call = "none"
    /\ \E climate_variable \in simulation_methods \cup {"precipitation"},
          given \in BOOLEAN, years_to_predict \in PredictionHorizons,
          scenario \in PredictorScenarios, quantum_simulation_enabled \in BOOLEAN :
        LET historical_data == IF given THEN GivenHistory(climate_variable) ELSE None
        IN  /\ call' = "QuantumClimatePredictor.generate_prediction"
            /\ args' = [climate_variable |-> climate_variable,
                        historical_data |-> historical_data,
                        years_to_predict |-> years_to_predict, scenario |-> scenario]
            /\ predictor' = [quantum_simulation_enabled |-> quantum_simulation_enabled,
                             quantum_enabled |-> quantum_simulation_enabled]
            /\ ret' = predictor_generate_prediction(climate_variable, historical_data,
                          years_to_predict, scenario, Noise(rng), quantum_simulation_enabled)
            /\ rng' = IF given \/ climate_variable \notin simulation_methods
                      THEN rng ELSE rng + 1
    /\ UNCHANGED <<baselines, results, pending, initial_state, initial, threads>>


-----------------------------------------------------------------------------
(* QuantumEnhancedPredictor: patterns, uncertainty profile, prediction *)

\* np.linspace(0, 1, 100)[idx]
LinTime(idx) == RoundDiv(idx * Milli, 99)

RECURSIVE SinSeries(_, _, _, _)
SinSeries(x2, k, term, acc) ==
    IF k > 12 THEN acc
    ELSE LET t == -RoundDiv(Mul(term, x2), (2 * k) * (2 * k + 1))
         IN  SinSeries(x2, k + 1, t, acc + t)

\* np.sin(x) for x >= 0: the argument reduced to [-pi, pi], then the
\* Taylor series.
Sin(x) ==
    LET y == x % 6283
        z == IF y > 3142 THEN y - 6283 ELSE y
    IN  SinSeries(Mul(z, z), 1, z, z)

\* The names of the basis patterns of a variable, in the order of the dict.
PatternNames(variable) ==
    CASE variable = "temperature" -> <<"linear", "accelerating", "stabilizing", "oscillating">>
      [] variable = "sea_level"   -> <<"linear", "accelerating", "exponential">>
      [] variable = "co2"         -> <<"linear", "stabilizing", "accelerating">>
      [] variable = "ice_extent"  -> <<"linear", "tipping", "threshold">>

\* _create_temperature_patterns()[pattern][idx]
temperature_patterns(pattern, idx) ==
    LET time == LinTime(idx)
    IN  CASE pattern = "linear"       -> Mul(time, 2500)
          [] pattern = "accelerating" -> Mul(2000, Exp(Mul(1500, time))) - 2000
          [] pattern = "stabilizing"  ->
                 RoundDiv(3000 * Milli, Milli + Exp(-6 * (time - 500)))
          [] pattern = "oscillating"  -> Mul(time, 2000) + Mul(300, Sin(time * 20))

\* _create_sea_level_patterns()[pattern][idx]
sea_level_patterns(pattern, idx) ==
    LET time == LinTime(idx)
    IN  CASE pattern = "linear"       -> time * 300
          [] pattern = "accelerating" -> 200 * Mul(time, time)
          [] pattern = "exponential"  -> 100 * (Exp(2 * time) - Milli)

\* _create_co2_patterns()[pattern][idx]
co2_patterns(pattern, idx) ==
    LET time == LinTime(idx)
    IN  CASE pattern = "linear"       -> 415000 + time * 150
          [] pattern = "stabilizing"  -> 415000 + 200 * (Milli - Exp(-3 * time))
          [] pattern = "accelerating" -> 415000 + 100 * time + 200 * Mul(time, time)

\* _create_ice_extent_patterns()[pattern][idx]
ice_extent_patterns(pattern, idx) ==
    LET time == LinTime(idx)
        over(level) == Max(0, time - level)
    IN  CASE pattern = "linear"    -> 10500 - 8 * time
          [] pattern = "tipping"   -> 10500 - 5 * time - 10 * Mul(over(500), over(500))
          [] pattern = "threshold" -> 10500 - 2 * time - 12 * over(700)

\* self.climate_variables[variable]['trend_patterns'][pattern][idx]
trend_patterns(variable, pattern, idx) ==
    CASE variable = "temperature" -> temperature_patterns(pattern, idx)
      [] variable = "sea_level"   -> sea_level_patterns(pattern, idx)
      [] variable = "co2"         -> co2_patterns(pattern, idx)
      [] variable = "ice_extent"  -> ice_extent_patterns(pattern, idx)

\* self.climate_variables[variable]['base_uncertainty']
base_uncertainty(variable) ==
    CASE variable = "temperature" -> 150
      [] variable = "sea_level"   -> 15000
      [] variable = "co2"         -> 2500
      [] variable = "ice_extent"  -> 400

\* The weights of the patterns, in the order of PatternNames: by scenario
\* and variable, equal weights for any other scenario.
Weights(variable, scenario) ==
    CASE scenario = "low_emissions" ->
             (CASE variable = "temperature" -> <<300, 100, 500, 100>>
                [] variable = "co2"         -> <<300, 600, 100>>
                [] variable = "sea_level"   -> <<600, 300, 100>>
                [] variable = "ice_extent"  -> <<700, 200, 100>>)
      [] scenario = "moderate" ->
             (CASE variable = "temperature" -> <<400, 300, 200, 100>>
                [] variable = "co2"         -> <<500, 300, 200>>
                [] variable = "sea_level"   -> <<400, 400, 200>>
                [] variable = "ice_extent"  -> <<400, 400, 200>>)
      [] scenario = "high_emissions" ->
             (CASE variable = "temperature" -> <<200, 600, 100, 100>>
                [] variable = "co2"         -> <<300, 100, 600>>
                [] variable = "sea_level"   -> <<200, 500, 300>>
                [] variable = "ice_extent"  -> <<100, 700, 200>>)
      [] OTHER ->
             [k \in DOMAIN PatternNames(variable) |->
                 RoundDiv(Milli, Len(PatternNames(variable)))]

RECURSIVE SumSeq(_)
SumSeq(s) == IF s = <<>> THEN 0 ELSE Head(s) + SumSeq(Tail(s))

\* _quantum_pattern_superposition: the weights normalised, the patterns
\* read at idx = int(time_fraction * 99) for time_fraction = i / years.
quantum_pattern_superposition(variable, scenario, i, years_to_predict) ==
    LET idx == IF years_to_predict > 0 THEN (i * 99) \div years_to_predict ELSE 0
        weights == Weights(variable, scenario)
        total == SumSeq(weights)
    IN  SumSeq([k \in DOMAIN weights |->
                   Mul(RoundDiv(weights[k] * Milli, total),
                       trend_patterns(variable, PatternNames(variable)[k], idx))])

\* The quantum_advantage_factor a predictor is constructed with: the
\* documented range is 0 to 1, the default 0.5.
QuantumAdvantageFactors == {0, 250, 500, 1000}

\* np.power(x, exponent) for a natural number x and an exponent of
\* 0.5, 0.75, 0.875 or 1: square roots nested by the binary digits of the
\* exponent.
Power(x, exponent) ==
    IF exponent = Milli THEN x * Milli
    ELSE LET eighths == (exponent * 8) \div Milli
             root3 == IF eighths % 2 = 1 THEN SqrtOf(x * Milli) ELSE Milli
             root2 == SqrtOf(IF (eighths \div 2) % 2 = 1 THEN x * root3 ELSE root3)
         IN  SqrtOf(IF (eighths \div 4) % 2 = 1 THEN x * root2 ELSE root2)

\* classical_uncertainty = base_uncertainty * np.sqrt(np.arange(time_steps) + 1)
classical_uncertainty(variable, time_steps) ==
    [k \in 1..time_steps |-> Mul(base_uncertainty(variable), SqrtOf(k * Milli))]

\* quantum_factor = 1.0 - self.quantum_advantage * 0.5
QuantumFactor(quantum_advantage) == Milli - Mul(quantum_advantage, 500)

\* Mutant: the uncertainty is taken by the time left to the horizon.
UncertaintyByTimeLeft(variable, time_steps, quantum_advantage) ==
    [k \in 1..time_steps |->
        Mul(base_uncertainty(variable),
            Power(time_steps + 1 - k, Milli - Mul(quantum_advantage, 500)))]

\* _quantum_uncertainty_reduction: base_uncertainty * (t + 1) ** quantum_factor
\* for t in range(time_steps).
quantum_uncertainty_reduction(variable, time_steps, quantum_advantage) ==
    [k \in 1..time_steps |->
        Mul(base_uncertainty(variable), Power(k, QuantumFactor(quantum_advantage)))]

\* _get_current_value
get_current_value(variable) ==
    CASE variable = "temperature" -> 1200
      [] variable = "co2"         -> 417000
      [] variable = "sea_level"   -> 0
      [] variable = "ice_extent"  -> 10500
      [] OTHER -> 0

\* int(x): the fraction is cut off towards zero.
PyTrunc(x) == IF x >= 0 THEN x \div Milli ELSE -((-x) \div Milli)

\* QuantumEnhancedPredictor.generate_prediction: years_to_predict + 1
\* records from the current year on.
enhanced_generate_prediction(quantum_advantage, climate_variable, years_to_predict, scenario) ==
    IF climate_variable \notin EnhancedVariables THEN ReturnedNone
    ELSE LET start_value == get_current_value(climate_variable)
             uncertainties == quantum_uncertainty_reduction(
                                  climate_variable, years_to_predict + 1, quantum_advantage)
             Value(i) ==
                 IF i = 0 THEN start_value
                 ELSE LET pattern_value == quantum_pattern_superposition(
                                               climate_variable, scenario, i, years_to_predict)
                          blend_factor == Min(Milli, RoundDiv(i * Milli, 10))
                      IN  Mul(start_value, Milli - blend_factor)
                              + Mul(pattern_value, blend_factor)
         IN  [kind |-> "ok",
              value |-> [rows |-> [k \in 1..(years_to_predict + 1) |->
                                      Row(2026 + k - 1, Value(k - 1), uncertainties[k])]]]

\* A call of generate_prediction on a QuantumEnhancedPredictor constructed
\* with some quantum_advantage_factor.
EnhancedGeneratePrediction ==
    /\ call = "none"
    /\ \E quantum_advantage \in QuantumAdvantageFactors,
          climate_variable \in EnhancedVariables \cup {"extreme_events"},
          years_to_predict \in PredictionHorizons, scenario \in PredictorScenarios :
        /\ call' = "QuantumEnhancedPredictor.generate_prediction"
        /\ args' = [quantum_advantage |-> quantum_advantage,
                    climate_variable |-> climate_variable,
                    years_to_predict |-> years_to_predict, scenario |-> scenario]
        /\ ret' = enhanced_generate_prediction(quantum_advantage, climate_variable,
                                               years_to_predict, scenario)
    /\ UNCHANGED <<baselines, results, pending, initial_state, initial, rng,
                   predictor, threads>>

\* generate_comparison_chart as far as the two uncertainty profiles of
\* lines 401 - 406 and the reduction percentage computed from their last
\* entries; the figure is built from these.
EnhancedComparisonChart ==
    /\ call = "none"
    /\ \E quantum_advantage \in QuantumAdvantageFactors,
          climate_variable \in EnhancedVariables,
          years_to_predict \in PredictionHorizons :
        LET classical_uncertainties ==
                classical_uncertainty(climate_variable, years_to_predict + 1)
            quantum_uncertainties ==
                quantum_uncertainty_reduction(climate_variable, years_to_predict + 1,
                                              quantum_advantage)
        IN  /\ call' = "QuantumEnhancedPredictor.generate_comparison_chart"
            /\ args' = [quantum_advantage |-> quantum_advantage,
                        climate_variable |-> climate_variable,
                        years_to_predict |-> years_to_predict]
            /\ ret' = [kind |-> "ok",
                       value |-> [classical_uncertainties |-> classical_uncertainties,
                                  quantum_uncertainties |-> quantum_uncertainties,
                                  quantum_advantage_pct |->
                                      PyTrunc(100 * (Milli - RoundDiv(
                                          quantum_uncertainties[years_to_predict + 1] * Milli,
                                          classical_uncertainties[years_to_predict + 1])))]]
    /\ UNCHANGED <<baselines, results, pending, initial_state, initial, rng,
                   predictor, threads>>

PredictionNext ==
    \/ PredictorGeneratePrediction
    \/ EnhancedGeneratePrediction
    \/ EnhancedComparisonChart

PredictionSpec == Init /\ [][PredictionNext]_vars

-----------------------------------------------------------------------------
(* climate_system called by the solver at the times the solver chooses *)

\* The times odeint may hand to climate_system for output points
\* 0, 1, ..., years: between the points, before the first and beyond the
\* last.
SolverTimes(years) ==
    {-1500, -500, -1, 0, 250, 999, Milli, 1500,
     years * Milli - 1, years * Milli, years * Milli + 500,
     (years + 1) * Milli, (years + 3) * Milli}

\* int(np.floor(t))
Floor(t) == t \div Milli

\* One call of climate_system(y, t, co2_levels, params) by the solver
\* inside run_advanced_climate_simulation with the default parameters:
\* the CO2 level it uses and the derivatives it returns.
ClimateSystem ==
    /\ call = "none"
    /\ \E scenario \in CalledScenarios, years \in 1..MaxYears,
          current_year \in CurrentYears :
        \E t \in SolverTimes(years) :
            LET params == AdvancedDefaults
                co2_levels == Co2Levels(ScenarioOrFallback(scenario), current_year,
                                        years, 1, <<params.current_co2>>)
                y == [T_s |-> params.initial_temperature,
                      T_d |-> params.deep_ocean_temperature]
            IN  /\ call' = "climate_system"
                /\ args' = [y |-> y, t |-> t, co2_levels |-> co2_levels]
                /\ ret' = [kind |-> "ok",
                           value |-> [co2 |-> Co2Lookup(co2_levels, Floor(t)),
                                      dydt |-> climate_system(y, Floor(t), co2_levels,
                                                              params)]]
    /\ UNCHANGED <<baselines, results, pending, initial_state, initial, rng,
                   predictor, threads>>

LookupSpec == Init /\ [][ClimateSystem]_vars

-----------------------------------------------------------------------------
(* ClimateInterventionSimulator.calculate_intervention_effectiveness *)

\* frame.iloc[-1]
iloc_last(frame) == frame.rows[Len(frame.rows)]

\* The variables calculate_intervention_effectiveness is asked about.
AnalysedVariables == {"co2", "temperature"}

\* time_equivalent: for temperature, co2 and sea_level the years between
\* the result's last year and the first baseline year whose value is at
\* least the intervention's end value; "N/A" when there is none.
TimeEquivalent(variable, baseline, result, intervention_end) ==
    LET equivalent_years ==
            SelectSeq(baseline.rows, LAMBDA row : row.value >= intervention_end)
    IN  IF variable \in {"temperature", "co2", "sea_level"} /\ equivalent_years # <<>>
        THEN [years |-> iloc_last(result).year - equivalent_years[1].year]
        ELSE [years |-> "N/A"]

\* calculate_intervention_effectiveness: the baseline of the variable is
\* predicted first, then simulate_intervention is run; its None has no
\* iloc (AttributeError), a baseline ending at 0 divides by zero.
calculate_intervention_effectiveness(variable, intervention_type, custom_parameters, years_to_simulate, draws, quantum_enabled) ==
    LET baseline == generate_prediction(variable, years_to_simulate, Noise(draws),
                                        quantum_enabled)
        result == simulate_intervention(intervention_type, custom_parameters,
                                        years_to_simulate, draws + 1, quantum_enabled)
    IN  IF result.kind = "None" THEN [kind |-> "raise", value |-> "AttributeError"]
        ELSE LET baseline_end == iloc_last(baseline).value
                 intervention_end == iloc_last(result.value).value
                 absolute_difference == intervention_end - baseline_end
             IN  IF baseline_end = 0
                 THEN [kind |-> "raise", value |-> "ZeroDivisionError"]
                 ELSE [kind |-> "ok",
                       value |-> [variable |-> variable,
                                  intervention |-> intervention_type,
                                  baseline_end_value |-> baseline_end,
                                  intervention_end_value |-> intervention_end,
                                  absolute_difference |-> absolute_difference,
                                  relative_difference |->
                                      100 * RoundDiv(absolute_difference * Milli,
                                                     Abs(baseline_end)),
                                  time_equivalent |->
                                      TimeEquivalent(variable, baseline, result.value,
                                                     intervention_end)]]

\* A call of calculate_intervention_effectiveness.
CalculateInterventionEffectiveness ==
    /\ call = "none"
    /\ \E variable \in AnalysedVariables, intervention_type \in CalledTypes,
          custom_parameters \in CustomParameters,
          years \in 1..MaxYears \cup {years_to_simulate_default} :
        /\ call' = "calculate_intervention_effectiveness"
        /\ args' = [variable |-> variable, intervention_type |-> intervention_type,
                    custom_parameters |-> custom_parameters,
                    years_to_simulate |-> years]
        /\ ret' = calculate_intervention_effectiveness(
                      variable, intervention_type, custom_parameters, years, rng,
                      predictor.quantum_enabled)
        /\ rng' = rng + 1 + EffectCount(intervention_type)
    /\ UNCHANGED <<baselines, results, pending, initial_state, initial, predictor,
                   threads>>

EffectivenessSpec == Init /\ [][CalculateInterventionEffectiveness]_vars

-----------------------------------------------------------------------------
(* The intervention overlay: claims C1 - C4 *)

YearIndex(frame, i) == frame.rows[i].year - MinYear(frame)

OverlayReturned == call = "_apply_intervention_effect" /\ ret.kind = "ok"

\* C1: the delay invariant.  In the trajectory _apply_intervention_effect
\* returns, every row whose year offset from the first year is below
\* delay_years has the value, lower_bound and upper_bound of the baseline.
C1_DelayInvariant ==
    OverlayReturned =>
        \A i \in DOMAIN args.baseline.rows :
            YearIndex(args.baseline, i) < args.effect.delay_years =>
                /\ ret.value.rows[i].value = args.baseline.rows[i].value
                /\ ret.value.rows[i].lower_bound = args.baseline.rows[i].lower_bound
                /\ ret.value.rows[i].upper_bound = args.baseline.rows[i].upper_bound

\* A call in which rows before the delay exist and a later row was changed.
C1_Witness ==
    /\ OverlayReturned
    /\ \E i, j \in DOMAIN args.baseline.rows :
          /\ YearIndex(args.baseline, i) < args.effect.delay_years
          /\ YearIndex(args.baseline, j) >= args.effect.delay_years
          /\ ret.value.rows[j].value # args.baseline.rows[j].value

\* |modified[t] - baseline[t]| / |baseline[t]| <= saturation_level in every row
WithinSaturation ==
    \A i \in DOMAIN args.baseline.rows :
        args.baseline.rows[i].value # 0 =>
            Abs(ret.value.rows[i].value - args.baseline.rows[i].value) * Milli
                <= args.effect.saturation_level * Abs(args.baseline.rows[i].value)

\* C2 as claimed: the saturation invariant for every factor type.
C2_SaturationAnyFactorType == OverlayReturned => WithinSaturation

\* C2 as amended: the saturation invariant for the level-affecting factor
\* types (emission_reduction, carbon_sequestration, carbon_removal).
C2_SaturationLevelTypes ==
    (OverlayReturned /\ args.effect.factor_type \in LevelFactorTypes) => WithinSaturation

\* A level-affecting call in which a row sits exactly at the saturation
\* level although its unclamped effect is beyond it.
C2_Witness ==
    /\ OverlayReturned
    /\ args.effect.factor_type \in LevelFactorTypes
    /\ \E i \in DOMAIN args.baseline.rows :
          /\ YearIndex(args.baseline, i) >= args.effect.delay_years
          /\ Abs(RawEffect(args.effect, YearIndex(args.baseline, i))) > 2 * args.effect.saturation_level
          /\ Abs(ret.value.rows[i].value - args.baseline.rows[i].value) * Milli
                = args.effect.saturation_level * Abs(args.baseline.rows[i].value)

Clamp(x, bound) == Max(-bound, Min(bound, x))

CurveAt(i) ==
    implementation_curve(YearIndex(args.baseline, i), args.effect.delay_years,
                         Get(args.parameters, "implementation_speed", 500),
                         Get(args.parameters, "coverage", 700))

LevelRows(Factor(_)) ==
    (OverlayReturned /\ args.effect.factor_type \in LevelFactorTypes) =>
        \A i \in DOMAIN args.baseline.rows :
            YearIndex(args.baseline, i) >= args.effect.delay_years =>
                ret.value.rows[i].value = Mul(args.baseline.rows[i].value, Milli + Factor(i))

ClampThenCurve(i) ==
    Mul(Clamp(RawEffect(args.effect, YearIndex(args.baseline, i)),
              args.effect.saturation_level),
        CurveAt(i))

CurveThenClamp(i) ==
    Clamp(Mul(RawEffect(args.effect, YearIndex(args.baseline, i)), CurveAt(i)),
          args.effect.saturation_level)

RECURSIVE FoldOverlay(_, _, _, _)
FoldOverlay(frame, interventions, variable, years) ==
    IF interventions = <<>> THEN frame
    ELSE LET h == Head(interventions)
             affects == /\ h.type \in DOMAIN intervention_effects
                        /\ variable \in DOMAIN intervention_effects[h.type].effects
             step == IF affects
                     THEN apply_intervention_effect(
                              frame, intervention_effects[h.type].effects[variable],
                              ParametersOr(h.parameters, h.type), years)
                     ELSE frame
         IN  FoldOverlay(step, Tail(interventions), variable, years)

PackageReturned == call = "simulate_policy_package" /\ ret.kind = "ok"

\* C4: sequential composition.  The trajectory simulate_policy_package
\* returns for a variable is the left fold of the overlay, in list order,
\* over the interventions that affect the variable, starting from the
\* variable's baseline; steps that do not affect it leave it unchanged.
C4_SequentialComposition ==
    PackageReturned =>
        /\ DOMAIN ret.value = PackageVariables(args.interventions)
        /\ \A variable \in DOMAIN ret.value :
              ret.value[variable].rows =
                  FoldOverlay(baselines[variable], args.interventions, variable,
                              args.years_to_simulate).rows

\* A package of two interventions that both changed the co2 trajectory,
\* the second one working on the result of the first.
C4_Witness ==
    /\ PackageReturned
    /\ Len(args.interventions) = 2
    /\ "co2" \in DOMAIN ret.value
    /\ \A k \in 1..2 :
          /\ args.interventions[k].type \in DOMAIN intervention_effects
          /\ ret.value["co2"].rows #
                FoldOverlay(baselines["co2"], <<args.interventions[k]>>, "co2",
                            args.years_to_simulate).rows

-----------------------------------------------------------------------------
(* The integrators: claims C5 - C10 *)

Returned(entry_point) == call = entry_point /\ ret.kind = "ok"

Raised(entry_point, error) ==
    call = entry_point /\ ret.kind = "raise" /\ ret.value = error

TableReturned ==
    \/ Returned("run_climate_simulation")
    \/ Returned("run_advanced_climate_simulation")

\* C5: CO2 positivity.  For positive current_co2 and baseline_co2, every
\* entry of the CO2 column run_climate_simulation and
\* run_advanced_climate_simulation compute, hand to the logarithm and
\* return is > 0.
C5_Co2Positive ==
    (/\ TableReturned
     /\ ParamsOrDefaults(args.params).current_co2 > 0
     /\ ParamsOrDefaults(args.params).baseline_co2 > 0)
        => \A i \in DOMAIN ret.value : ret.value[i].co2 > 0

\* a >= 0 for a double: finite and not negative, or +inf
NotNegative(a) == (a.k = "fin" /\ a.v >= 0) \/ a.k = "inf"

\* C6: ice-extent non-negativity.  In every row of every trajectory
\* returned by run_climate_simulation, run_advanced_climate_simulation,
\* AdvancedClimateSimulator.run_simulation and
\* SimpleClimateSimulator.run_simulation the ice-extent column is >= 0.
C6_IceNonNegative ==
    /\ TableReturned =>
          \A i \in DOMAIN ret.value : NotNegative(ret.value[i].arctic_ice)
    /\ (\/ Returned("AdvancedClimateSimulator.run_simulation")
        \/ Returned("SimpleClimateSimulator.run_simulation")) =>
          \A i \in DOMAIN ret.value : ret.value[i].ice_extent >= 0

\* The piecewise loss of row i of a run_advanced_climate_simulation result.
LossAt(i) ==
    IceLoss(Fin(ret.value[i].temperature.v
                - ParamsOrDefaults(args.params).initial_temperature)).v

\* A run_advanced_climate_simulation trajectory with a row whose remaining
\* extent is below 1.0 and a row whose piecewise loss exceeds the initial 10.5.
C6_Witness ==
    /\ Returned("run_advanced_climate_simulation")
    /\ \A i \in DOMAIN ret.value : ret.value[i].temperature.k = "fin"
    /\ \E i, j \in DOMAIN ret.value :
          /\ ret.value[i].arctic_ice.v > 0
          /\ ret.value[i].arctic_ice.v < 800
          /\ LossAt(j) > 11000
          /\ ret.value[j].arctic_ice = Fin(0)

\* C7 as claimed: every returned trajectory of run_climate_simulation,
\* run_advanced_climate_simulation and AdvancedClimateSimulator.run_simulation
\* (time_step <= 1) has exactly H + 1 records.
C7_LengthHPlusOne ==
    (\/ TableReturned
     \/ Returned("AdvancedClimateSimulator.run_simulation")) =>
        Len(ret.value) = args.years + 1

\* C7 as amended: run_advanced_climate_simulation returns H + 1 records;
\* run_climate_simulation returns H records;
\* AdvancedClimateSimulator.run_simulation returns one record per time
\* step, H / time_step + 1 records, when time_step divides H, and raises
\* ValueError when it does not.
C7_LengthByEntryPoint ==
    /\ Returned("run_advanced_climate_simulation") => Len(ret.value) = args.years + 1
    /\ Returned("run_climate_simulation") => Len(ret.value) = args.years
    /\ call = "AdvancedClimateSimulator.run_simulation" =>
          IF (args.years * Milli) % args.time_step = 0
          THEN /\ ret.kind = "ok"
               /\ Len(ret.value) = (args.years * Milli) \div args.time_step + 1
          ELSE Raised("AdvancedClimateSimulator.run_simulation", "ValueError")

\* A run of AdvancedClimateSimulator.run_simulation with a time step below
\* one year that returned more than H + 1 records.
C7_Witness ==
    /\ Returned("AdvancedClimateSimulator.run_simulation")
    /\ args.time_step < Milli
    /\ args.years >= 2
    /\ Len(ret.value) > args.years + 1

\* The year column of a returned trajectory, in thousandths of a year.
YearsOf ==
    [i \in DOMAIN ret.value |->
        IF call = "AdvancedClimateSimulator.run_simulation"
        THEN ret.value[i].year
        ELSE ret.value[i].year * Milli]

\* The years start at current_year and advance by step from record to record.
YearsAdvanceBy(step) ==
    \A i \in DOMAIN ret.value :
        YearsOf[i] = args.current_year * Milli + (i - 1) * step

UnknownScenario == args.scenario \notin DOMAIN EMISSION_SCENARIOS

\* The positions of a package's interventions with a type of the catalogue.
KnownItems(interventions) ==
    SelectSeq(interventions, LAMBDA item : item.type \in DOMAIN intervention_effects)

HasUnknownItem(interventions) ==
    \E k \in DOMAIN interventions : interventions[k].type \notin DOMAIN intervention_effects

\* C9 as claimed: an entry point given a scenario id or an intervention
\* type that is not in its catalogue raises an error; it substitutes no
\* default, returns no None and skips nothing.
C9_UnknownRejected ==
    /\ (/\ call \in {"run_climate_simulation", "run_advanced_climate_simulation"}
        /\ UnknownScenario) => ret.kind = "raise"
    /\ (/\ call \in {"AdvancedClimateSimulator.run_simulation",
                     "SimpleClimateSimulator.run_simulation"}
        /\ args.scenario \notin DOMAIN emission_rates) => ret.kind = "raise"
    /\ (/\ call = "simulate_intervention"
        /\ args.intervention_type \notin DOMAIN intervention_effects) => ret.kind = "raise"
    /\ (/\ call = "simulate_policy_package"
        /\ HasUnknownItem(args.interventions)) => ret.kind \in {"running", "raise"}

\* C9 as amended: run_climate_simulation and run_advanced_climate_simulation
\* replace an unknown scenario id by business_as_usual (2.5 ppm a year);
\* AdvancedClimateSimulator.run_simulation runs an unknown scenario (with
\* constant emissions) and raises only for its time step;
\* SimpleClimateSimulator.run_simulation raises KeyError; simulate_intervention
\* returns None for an unknown type; simulate_policy_package skips the
\* unknown items and returns the package of the known ones.
C9_UnknownHandledByEntryPoint ==
    /\ (Returned("run_climate_simulation") /\ UnknownScenario) =>
          \A i \in DOMAIN ret.value :
              ret.value[i].co2 = args.params.current_co2 + 2500 * i
    /\ (call = "run_advanced_climate_simulation" /\ UnknownScenario) =>
          IF AdvancedKeysRead \subseteq DOMAIN ParamsOrDefaults(args.params)
          THEN /\ ret.kind = "ok"
               /\ \A i \in DOMAIN ret.value :
                     ret.value[i].co2 =
                         ParamsOrDefaults(args.params).current_co2 + 2500 * (i - 1)
          ELSE ret.kind = "raise" /\ ret.value = "KeyError"
    /\ (/\ call = "AdvancedClimateSimulator.run_simulation"
        /\ args.scenario \notin DOMAIN emission_rates) =>
          (ret.kind = "ok" <=> (args.years * Milli) % args.time_step = 0)
    /\ (/\ call = "SimpleClimateSimulator.run_simulation"
        /\ args.scenario \notin DOMAIN emission_rates) =>
          Raised("SimpleClimateSimulator.run_simulation", "KeyError")
    /\ (/\ call = "simulate_intervention"
        /\ args.intervention_type \notin DOMAIN intervention_effects) =>
          ret = ReturnedNone
    /\ (call = "simulate_policy_package" /\ HasUnknownItem(args.interventions)) =>
          /\ ret.kind # "raise"
          /\ ret.kind = "ok" =>
                /\ DOMAIN ret.value = PackageVariables(KnownItems(args.interventions))
                /\ \A variable \in DOMAIN ret.value :
                      ret.value[variable].rows =
                          FoldOverlay(baselines[variable], KnownItems(args.interventions),
                                      variable, args.years_to_simulate).rows

\* A package of an unknown and a known type that returned the overlay of
\* the known one.
C9_Witness ==
    /\ Returned("simulate_policy_package")
    /\ Len(args.interventions) = 2
    /\ HasUnknownItem(args.interventions)
    /\ Len(KnownItems(args.interventions)) = 1
    /\ \E variable \in DOMAIN ret.value :
          ret.value[variable].rows # baselines[variable].rows

\* C10: parameter overrides fall back to defaults.  A run of
\* run_advanced_climate_simulation given a params mapping completes, and so
\* does generate_intervention_simulation, which builds such a mapping; no
\* call fails on a missing coefficient.
C10_PartialParamsComplete ==
    /\ (call = "run_advanced_climate_simulation" /\ ~IsNone(args.params)) =>
          ret.kind = "ok"
    /\ call = "generate_intervention_simulation" => ret.kind = "ok"

-----------------------------------------------------------------------------
(* Errors, determinism and the shared predictor: claims C11 - C14 *)

\* C11: no non-finite output.  No trajectory returned by
\* run_climate_simulation or run_advanced_climate_simulation holds a nan or
\* an infinite value, and a call whose params have ocean_heat_capacity <= 0
\* or baseline_co2 <= 0 raises an error.
C11_NoNonFiniteOutput ==
    /\ TableReturned =>
          \A i \in DOMAIN ret.value :
              IsFinite(ret.value[i].temperature) /\ IsFinite(ret.value[i].arctic_ice)
    /\ (/\ call \in {"run_climate_simulation", "run_advanced_climate_simulation"}
        /\ \/ ParamsOrDefaults(args.params).ocean_heat_capacity <= 0
           \/ ParamsOrDefaults(args.params).baseline_co2 <= 0) => ret.kind = "raise"

\* C12: determinism.  Two calls of generate_prediction (historical_data
\* None) or of simulate_intervention with identical arguments, reading the
\* same quantum_enabled, return identical values.
C12_RepeatedCallSameValue ==
    \A i, j \in DOMAIN threads["runs"].returned :
        threads["runs"].returned[i].flag = threads["runs"].returned[j].flag =>
            threads["runs"].returned[i].value = threads["runs"].returned[j].value

\* C13: quantum_enabled is framed.  Whenever no operation is in progress
\* on a predictor, its quantum_enabled is the value chosen at construction.
C13_QuantumEnabledAsConstructed ==
    (\A thread \in Threads : threads[thread].pc = "idle") =>
        predictor.quantum_enabled = predictor.quantum_simulation_enabled

\* C14: concurrent use.  On the simulator's predictor (constructed with
\* quantum simulation enabled) every generate_prediction of the thread
\* "runs" has read quantum_enabled as TRUE, whatever the thread "charts"
\* was doing.
C14_RunReadsConfiguredFlag ==
    predictor.quantum_simulation_enabled =>
        \A i \in DOMAIN threads["runs"].returned : threads["runs"].returned[i].flag

-----------------------------------------------------------------------------
(* Tipping points: claims C15 - C16 *)

\* The tests of the report: the key of the year, the column tested, and
\* the threshold with its direction.
TestedThresholds ==
    { [key |-> "1.5C_threshold_year", column |-> "temperature", up |-> TRUE, at |-> 1500],
      [key |-> "2.0C_threshold_year", column |-> "temperature", up |-> TRUE, at |-> 2000],
      [key |-> "permafrost_methane_year", column |-> "temperature", up |-> TRUE, at |-> 2500],
      [key |-> "3.0C_threshold_year", column |-> "temperature", up |-> TRUE, at |-> 3000],
      [key |-> "ice_free_summer_year", column |-> "ice_extent", up |-> FALSE, at |-> 1000] }

Satisfies(record, test) ==
    IF test.up THEN record[test.column] >= test.at ELSE record[test.column] <= test.at

Reached(frame, test) ==
    /\ test.column \in frame.columns
    /\ \E i \in DOMAIN frame.rows : Satisfies(frame.rows[i], test)

Earliest(frame, test) ==
    CHOOSE i \in DOMAIN frame.rows :
        /\ Satisfies(frame.rows[i], test)
        /\ \A j \in 1..(i - 1) : ~Satisfies(frame.rows[j], test)

Analysed == call = "analyze_tipping_points"

\* C15: first crossing.  For every analysed frame and every tested
\* threshold that some record satisfies, the report holds the (whole) year
\* of the earliest such record, whatever the later records are; for the
\* temperatures 1.0, 1.3, 1.6, 2.1 of the years 2025 to 2028 the year
\* reported for 1.5 is 2027.
C15_FirstCrossing ==
    Analysed =>
        /\ \A test \in TestedThresholds :
              Reached(args.results, test) =>
                  /\ test.key \in DOMAIN ret.value
                  /\ ret.value[test.key] =
                        PyInt(args.results.rows[Earliest(args.results, test)].year)
        /\ args.results = ResultsFrame({"temperature"}, 4, Milli,
                                       <<1000, 1300, 1600, 2100>>, <<>>) =>
              ret.value["1.5C_threshold_year"] = 2027

C15_Witness ==
    /\ Analysed
    /\ args.results = ResultsFrame({"temperature"}, 4, Milli,
                                   <<1000, 1300, 1600, 2100>>, <<>>)
    /\ ret.value["1.5C_threshold_year"] = 2027
    /\ ret.value["2.0C_threshold_year"] = 2028

\* C16: not-reached sentinel.  For every analysed frame and every tested
\* threshold that no record reaches, the report holds an entry for that
\* threshold with the value "not reached".
C16_NotReachedSentinel ==
    Analysed =>
        \A test \in TestedThresholds :
            ~Reached(args.results, test) =>
                /\ test.key \in DOMAIN ret.value
                /\ ret.value[test.key] = "not reached"

-----------------------------------------------------------------------------
(* Consumers of trajectories: claims C17 - C18 *)

FirstYearOf(rows) ==
    CHOOSE y \in {rows[i].year : i \in DOMAIN rows} :
        \A i \in DOMAIN rows : y <= rows[i].year

\* The years within the range of every compared trajectory.
OverlappingYears(comparisons) ==
    {y \in 2000..2100 :
        \A key \in DOMAIN comparisons :
            FirstYearOf(comparisons[key]) <= y /\ y <= YearMax(comparisons[key])}

C18_ConsumersLeaveInputs ==
    call \in {"_apply_quantum_advantage", "_apply_quantum_entanglement"} =>
        \A variable \in DOMAIN baselines :
            \A i \in DOMAIN baselines[variable] :
                results[variable][i] = baselines[variable][i]

-----------------------------------------------------------------------------
(* Physical direction of the results: claims C19 - C20 *)

\* The CO2 baseline of a simulate_intervention call that has returned: the
\* first prediction it asked for.
Co2Baseline ==
    generate_prediction("co2", args.years_to_simulate,
                        Noise(rng - EffectCount(args.intervention_type)),
                        predictor.quantum_enabled)

LastValue(frame) == frame.rows[Len(frame.rows)].value

\* C19: renewable energy lowers CO2.  simulate_intervention of
\* renewable_energy over 30 years returns the CO2 trajectory, that is the
\* CO2 baseline overlaid with the intervention's CO2 effect, and its
\* last-year value is strictly lower than the last-year value of the CO2
\* baseline.
C19_RenewableLowersCo2 ==
    (/\ call = "simulate_intervention"
     /\ args.intervention_type = "renewable_energy"
     /\ args.years_to_simulate = years_to_simulate_default) =>
        /\ ret.kind = "ok"
        /\ ret.value =
              apply_intervention_effect(
                  Co2Baseline, intervention_effects["renewable_energy"].effects["co2"],
                  Update(intervention_effects["renewable_energy"].parameters,
                         args.custom_parameters),
                  args.years_to_simulate)
        /\ LastValue(ret.value) < LastValue(Co2Baseline)

\* C20: scenario ordering.  Run over 80 years by the same integrator from
\* the same initial state and parameters, business_as_usual ends with a
\* strictly higher temperature than moderate_mitigation, in each of the
\* three integrators.
C20_ScenarioOrdering ==
    (call = "scenario_runs" /\ args.years = years_default) =>
        /\ IsFinite(ret.value["business_as_usual"])
        /\ IsFinite(ret.value["moderate_mitigation"])
        /\ ret.value["business_as_usual"].v > ret.value["moderate_mitigation"].v

C20_Witness ==
    /\ call = "scenario_runs"
    /\ args.years = years_default
    /\ args.integrator = "AdvancedClimateSimulator.run_simulation"
    /\ args.setting.time_step = 100
    /\ ret.value["business_as_usual"].v > ret.value["moderate_mitigation"].v

-----------------------------------------------------------------------------
(* The overlay and the predictors: claims C21 - C23 *)

\* C21: the overlay preserves shape.  For every baseline, effect and
\* parameter set, whatever the relation between the baseline's number of
\* rows and the years argument, _apply_intervention_effect returns a
\* trajectory with as many rows as the baseline and the same year in every
\* row.
C21_OverlayPreservesShape ==
    call = "_apply_intervention_effect" =>
        /\ ret.kind = "ok"
        /\ Len(ret.value.rows) = Len(args.baseline.rows)
        /\ \A i \in DOMAIN args.baseline.rows :
              ret.value.rows[i].year = args.baseline.rows[i].year

\* The uncertainty column of a frame does not decrease from a record to
\* the next.
UncertaintyMonotone(rows) ==
    \A i \in 2..Len(rows) : rows[i].uncertainty >= rows[i - 1].uncertainty

PredictionReturned ==
    /\ call \in {"QuantumClimatePredictor.generate_prediction",
                 "QuantumEnhancedPredictor.generate_prediction"}
    /\ ret.kind = "ok"

\* C22 as claimed: uncertainty growth is monotone.  In every trajectory
\* returned by generate_prediction of either predictor, for every variable
\* (ice_extent included), scenario and horizon, the uncertainty of each
\* record is >= the uncertainty of the record before it.
C22_UncertaintyMonotone ==
    PredictionReturned => UncertaintyMonotone(ret.value.rows)

PredictorIceExtent ==
    /\ call = "QuantumClimatePredictor.generate_prediction"
    /\ args.climate_variable = "ice_extent"

\* C22 as amended: the uncertainty is non-decreasing in every trajectory of
\* QuantumEnhancedPredictor.generate_prediction and in every trajectory of
\* QuantumClimatePredictor.generate_prediction but those of ice_extent,
\* whose uncertainty shrinks while the extent approaches its minimum.
C22_MonotoneButShrinkingIce ==
    (PredictionReturned /\ ~PredictorIceExtent) => UncertaintyMonotone(ret.value.rows)

\* A trajectory other than ice_extent, longer than a default horizon,
\* whose uncertainty has grown from the first record to the last.
C22_Witness ==
    /\ PredictionReturned
    /\ ~PredictorIceExtent
    /\ Len(ret.value.rows) > years_to_simulate_default
    /\ ret.value.rows[Len(ret.value.rows)].uncertainty > ret.value.rows[1].uncertainty

\* C23: the reduced-uncertainty regime.  For every quantum_advantage_factor
\* in [0, 1] and every step t >= 0 the uncertainty returned by
\* _quantum_uncertainty_reduction is <= the classical random-walk
\* uncertainty base_uncertainty * sqrt(t + 1): the quantum band that
\* generate_comparison_chart draws is never wider than the classical band.
C23_QuantumBandNotWider ==
    call = "QuantumEnhancedPredictor.generate_comparison_chart" =>
        \A k \in DOMAIN ret.value.quantum_uncertainties :
            ret.value.quantum_uncertainties[k] <= ret.value.classical_uncertainties[k]

-----------------------------------------------------------------------------
(* Scenario lookup, bounds, packages, scenarios: claims C24 - C30 *)

\* C24: scenario lookup clamping.  For every time t the solver hands to
\* climate_system (negative, fractional or beyond the horizon) the CO2
\* level used is co2_levels[min(max(floor(t), 0), len(co2_levels) - 1)],
\* and the lookup raises no index error.
C24_LookupClamped ==
    call = "climate_system" =>
        /\ ret.kind = "ok"
        /\ ret.value.co2 =
               args.co2_levels[Min(Max(Floor(args.t), 0), Len(args.co2_levels) - 1) + 1]

\* A lookup before the first point and a lookup beyond the last point of
\* a table whose first and last levels differ.
C24_Witness ==
    /\ call = "climate_system"
    /\ args.co2_levels[1] # args.co2_levels[Len(args.co2_levels)]
    /\ \/ Floor(args.t) < 0 /\ ret.value.co2 = args.co2_levels[1]
       \/ /\ Floor(args.t) >= Len(args.co2_levels)
          /\ ret.value.co2 = args.co2_levels[Len(args.co2_levels)]

\* lower_bound = value - 1.96 * uncertainty and upper_bound = value + 1.96
\* * uncertainty in every row.
Centred(rows) ==
    \A i \in DOMAIN rows :
        /\ rows[i].lower_bound = rows[i].value - Band(rows[i].uncertainty)
        /\ rows[i].upper_bound = rows[i].value + Band(rows[i].uncertainty)

\* C25: bounds stay centred.  From a baseline whose rows all have their
\* bounds at 1.96 uncertainties from the value, one overlay and every
\* sequence of overlays a policy package applies return rows, affected or
\* not, whose bounds are at 1.96 of their own uncertainty from their own
\* value.
C25_BoundsStayCentred ==
    /\ (OverlayReturned /\ Centred(args.baseline.rows)) => Centred(ret.value.rows)
    /\ PackageReturned =>
           \A variable \in DOMAIN ret.value :
               Centred(baselines[variable].rows) => Centred(ret.value[variable].rows)

\* A package of two interventions that has changed a value of a centred
\* baseline.
C25_Witness ==
    /\ PackageReturned
    /\ Len(args.interventions) = 2
    /\ \E variable \in DOMAIN ret.value :
          /\ Centred(baselines[variable].rows)
          /\ \E i \in DOMAIN ret.value[variable].rows :
                ret.value[variable].rows[i].value # baselines[variable].rows[i].value

\* implementation_speed and coverage as the overlay reads them from the
\* parameters it is handed.
OverlayParameters(parameters) ==
    [implementation_speed |-> Get(parameters, "implementation_speed", 500),
     coverage |-> Get(parameters, "coverage", 700)]

\* C26: package parameters are merged like single-intervention parameters.
\* For every intervention of a returned policy package, the
\* implementation_speed and coverage its overlays were run with are the
\* catalogue defaults of its type overridden by the keys the package item
\* supplies, the values simulate_intervention uses for the same type and
\* custom parameters.
C26_PackageMergesParameters ==
    PackageReturned =>
        \A k \in DOMAIN args.interventions :
            LET item == args.interventions[k]
            IN  item.type \in DOMAIN intervention_effects =>
                    OverlayParameters(ParametersOr(item.parameters, item.type))
                        = OverlayParameters(
                              Update(intervention_effects[item.type].parameters,
                                     item.parameters))

\* The end value of the trajectory simulate_intervention computes for a
\* variable the intervention affects, inside the effectiveness call: the
\* overlay of that variable's effect on that variable's baseline.
EndValueOf(variable) ==
    LET intervention == intervention_effects[args.intervention_type]
    IN  iloc_last(apply_intervention_effect(
            generate_prediction(variable, args.years_to_simulate,
                Noise(DrawsBefore(variable, DOMAIN intervention.effects, 1)),
                predictor.quantum_enabled),
            intervention.effects[variable],
            Update(intervention.parameters, args.custom_parameters),
            args.years_to_simulate)).value

\* C27: effectiveness compares like with like.  For every variable and
\* intervention type given to calculate_intervention_effectiveness, the
\* intervention end value it subtracts the baseline end value from is the
\* end value of a trajectory of that same variable.
C27_EffectivenessSameVariable ==
    (/\ call = "calculate_intervention_effectiveness"
     /\ args.intervention_type \in DOMAIN intervention_effects) =>
        /\ ret.kind = "ok"
        /\ args.variable \in DOMAIN intervention_effects[args.intervention_type].effects
        /\ ret.value.intervention_end_value = EndValueOf(args.variable)

\* The annual CO2 increment of a returned trajectory turns negative in row i.
Co2Falls(rows, i) == rows[i].co2 < rows[i - 1].co2

\* A returned trajectory of either climate model under negative_emissions.
NegativeEmissionsReturned ==
    /\ call \in {"run_climate_simulation", "run_advanced_climate_simulation"}
    /\ ret.kind = "ok"
    /\ args.scenario = "negative_emissions"

\* C28: under negative_emissions, in both run_climate_simulation and
\* run_advanced_climate_simulation, the CO2 level does not fall from one record
\* to the next in any year before negative_year (2070): the annual increment
\* is negative only from negative_year onward.
C28_NegativeOnlyFromNegativeYear ==
    NegativeEmissionsReturned =>
        \A i \in 2..Len(ret.value) :
            Co2Falls(ret.value, i) =>
                ret.value[i].year >= EMISSION_SCENARIOS.negative_emissions.negative_year

\* A returned trajectory of either climate model.
SimulationReturned ==
    /\ call \in {"run_climate_simulation", "run_advanced_climate_simulation"}
    /\ ret.kind = "ok"

\* C29: in both run_climate_simulation and run_advanced_climate_simulation the
\* first record, for the start year, carries current_co2 and
\* initial_temperature unchanged.
C29_FirstRecordIsInitialState ==
    SimulationReturned =>
        LET params == ParamsOrDefaults(args.params)
            first == ret.value[1]
        IN  /\ first.year = args.current_year
            /\ first.co2 = params.current_co2
            /\ first.temperature = Fin(params.initial_temperature)

\* The list in the opposite order.
Reversed(interventions) ==
    [k \in DOMAIN interventions |-> interventions[Len(interventions) + 1 - k]]

\* Every intervention of the list that affects the variable does so with a
\* level-affecting factor type.
LevelOnly(interventions, variable) ==
    \A k \in DOMAIN interventions :
        LET item == interventions[k]
        IN  (/\ item.type \in DOMAIN intervention_effects
             /\ variable \in DOMAIN intervention_effects[item.type].effects)
            => intervention_effects[item.type].effects[variable].factor_type
                   \in LevelFactorTypes

\* Two trajectories agree in value and bounds in every row, up to `units`
\* units of the last place the arithmetic keeps.
SameValuesAndBounds(a, b, units) ==
    /\ DOMAIN a.rows = DOMAIN b.rows
    /\ \A i \in DOMAIN a.rows :
          /\ Abs(a.rows[i].value - b.rows[i].value) <= units
          /\ Abs(a.rows[i].lower_bound - b.rows[i].lower_bound) <= units
          /\ Abs(a.rows[i].upper_bound - b.rows[i].upper_bound) <= units
          /\ a.rows[i].uncertainty = b.rows[i].uncertainty

\* C30: when every effect a package has on a variable is of a level-affecting
\* factor type, simulate_policy_package returns for that variable the same
\* value and the same bounds in every row as the package with the
\* interventions in the opposite order would, up to the rounding of the
\* products (one unit of the last place per overlay).
C30_LevelOverlaysCommute ==
    PackageReturned =>
        \A variable \in DOMAIN ret.value :
            LevelOnly(args.interventions, variable) =>
                SameValuesAndBounds(
                    ret.value[variable],
                    FoldOverlay(baselines[variable], Reversed(args.interventions),
                                variable, args.years_to_simulate),
                    Len(args.interventions))

\* A returned package of two different interventions that both lower the CO2
\* of the last row by a level-affecting effect.
C30_Witness ==
    /\ PackageReturned
    /\ Len(args.interventions) = 2
    /\ args.interventions[1].type # args.interventions[2].type
    /\ "co2" \in DOMAIN ret.value
    /\ LevelOnly(args.interventions, "co2")
    /\ LET years == args.years_to_simulate
           first == FoldOverlay(baselines["co2"], <<args.interventions[1]>>, "co2", years)
           second == FoldOverlay(baselines["co2"], <<args.interventions[2]>>, "co2", years)
           n == Len(ret.value["co2"].rows)
       IN  /\ ret.value["co2"].rows[n].value < first.rows[n].value
           /\ ret.value["co2"].rows[n].value < second.rows[n].value

=============================================================================
